---- MODULE Spec2Model ----
(***************************************************************************)
(* A model of the signed-action client: the typed-data encoder             *)
(* (types/eip712.rs, types/actions.rs), the exchange provider's dispatch   *)
(* path (providers/exchange.rs) and the rate limiter it consults, the      *)
(* order builder, the order batcher and the WebSocket provider             *)
(* (providers/websocket.rs).                                               *)
(*                                                                         *)
(* Hashing.  keccak256 is modelled as a collision-free constructor: the    *)
(* digest of a pre-image is the tagged pre-image itself, so two digests    *)
(* are equal exactly when their pre-images are.  Byte strings are either   *)
(* text (a TLA+ string), a sequence of 32-byte words, or a tagged tuple.   *)
(***************************************************************************)
EXTENDS Integers, Sequences, FiniteSets, TLC

VARIABLES
    \* ---- pure functions (SpecEnc, SpecSig) ----
    encAct,        \* the value handed to the function under test
    encOut,        \* the last function applied to it, and its result
    \* ---- the environment of the providers ----
    wall,          \* SystemTime::now(), in milliseconds since the epoch
    now,           \* the monotonic clock the rate limiter reads
    \* ---- ExchangeProvider instances ----
    provider,      \* per provider: endpoint, vault_address, agent, builder
    limiter,       \* per provider: its RateLimiter (tokens, last_refill)
    \* ---- caller tasks ----
    pc,            \* per task: "idle", "signing", "posting" or "done"
    call,          \* per task: the call in progress
    result,        \* per task: what the call returned
    sigReq,        \* per task: the digests the call handed to the signer
    posts,         \* per task: the payloads the call POSTed
    \* ---- history ----
    maxIssued,     \* per provider: the largest nonce issued so far (-1: none)
    admitted,      \* per provider and instant: the weight admitted at it
    lastCheck,     \* the last direct admission check and its outcome
    \* ---- order tracker and batcher ----
    window,        \* the open BatchWindow: the ids of its intents, in order
    windowAge,     \* how long the open window has been open
    intents,       \* every OrderIntent created so far, by id
    batches,       \* every batch dispatched so far, in dispatch order
    shutdown,      \* the process is shutting down
    \* ---- one WsProvider, its reader task and its router task ----
    ws,            \* self.ws.is_some(): the provider holds the connection
    subscriptions, \* the subscription table: id -> the Subscription of its handle
    next_id,       \* the id the next successful subscribe takes
    wsPc,          \* the unsubscribe waiting for its frame to be written, if any
    wsRet,         \* what the last call on the provider returned
    wire,          \* the frames written to the connection, in order
    reader,        \* the reader task: "none", "running" or "stopped"
    message_chan,  \* the texts the reader sent and the router has not taken
    routing,       \* the message the router is handing out, and to whom still
    rx,            \* per id issued: the messages its receiver was sent, in order
    readLog,       \* the texts the reader forwarded, in the order read
    unsubDone      \* the ids issued for which an unsubscribe call has returned

encVars == <<encAct, encOut>>
clockVars == <<wall, now>>
taskVars == <<pc, call, result, sigReq, posts>>
histVars == <<admitted, lastCheck>>
batchVars == <<window, windowAge, intents, batches, shutdown>>
wsVars == <<ws, subscriptions, next_id, wsPc, wsRet, wire, reader, message_chan,
            routing, rx, readLog, unsubDone>>
vars == <<encAct, encOut, wall, now, provider, limiter, pc, call,
          result, sigReq, posts, maxIssued, admitted, lastCheck,
          window, windowAge, intents, batches, shutdown,
          ws, subscriptions, next_id, wsPc, wsRet, wire, reader, message_chan,
          routing, rx, readLog, unsubDone>>

(***************************************************************************)
(* JSON values (serde_json::Value) and 32-byte words                       *)
(***************************************************************************)
Str(s) == <<"str", s>>
Num(n) == <<"num", n>>
Null == <<"null">>

U256(n) == <<"u256", n>>
ZeroWord == U256(0)                      \* [0u8; 32]
KeccakText(s) == <<"keccak_text", s>>    \* keccak256 of a text
KeccakWords(words) == <<"keccak_words", words>> \* keccak256 of concatenated words

(***************************************************************************)
(* The action types of types/actions.rs                                    *)
(***************************************************************************)
UserVariants == {"UsdSend", "Withdraw", "SpotSend", "ApproveAgent",
                 "ApproveBuilderFee"}
Variants == UserVariants \cup {"Agent"}

\* The struct's fields in declaration order, under their serde (camelCase) names.
StructFields(v) ==
    CASE v = "UsdSend" ->
           <<"signatureChainId", "hyperliquidChain", "destination", "amount", "time">>
      [] v = "Withdraw" ->
           <<"signatureChainId", "hyperliquidChain", "destination", "amount", "time">>
      [] v = "SpotSend" ->
           <<"signatureChainId", "hyperliquidChain", "destination", "token", "amount",
             "time">>
      [] v = "ApproveAgent" ->
           <<"signatureChainId", "hyperliquidChain", "agentAddress", "agentName",
             "nonce">>
      [] v = "ApproveBuilderFee" ->
           <<"signatureChainId", "hyperliquidChain", "maxFeeRate", "builder", "nonce">>
      [] v = "Agent" -> <<"source", "connectionId">>

\* The members of the type-signature string, in the order it declares them.
TypeMembers(v) ==
    CASE v = "UsdSend" ->
           << <<"string", "hyperliquidChain">>, <<"string", "destination">>,
              <<"string", "amount">>, <<"uint64", "time">> >>
      [] v = "Withdraw" ->
           << <<"string", "hyperliquidChain">>, <<"string", "destination">>,
              <<"string", "amount">>, <<"uint64", "time">> >>
      [] v = "SpotSend" ->
           << <<"string", "hyperliquidChain">>, <<"string", "destination">>,
              <<"string", "token">>, <<"string", "amount">>, <<"uint64", "time">> >>
      [] v = "ApproveAgent" ->
           << <<"string", "hyperliquidChain">>, <<"address", "agentAddress">>,
              <<"string", "agentName">>, <<"uint64", "nonce">> >>
      [] v = "ApproveBuilderFee" ->
           << <<"string", "hyperliquidChain">>, <<"string", "maxFeeRate">>,
              <<"string", "builder">>, <<"uint64", "nonce">> >>
      [] v = "Agent" ->
           << <<"string", "source">>, <<"bytes32", "connectionId">> >>

\* HyperliquidAction::TYPE_STRING, as the macro invocations give it
TYPE_STRING(v) ==
    CASE v = "UsdSend" ->
           "UsdSend(string hyperliquidChain,string destination,string amount,uint64 time)"
      [] v = "Withdraw" ->
           "Withdraw(string hyperliquidChain,string destination,string amount,uint64 time)"
      [] v = "SpotSend" ->
           "SpotSend(string hyperliquidChain,string destination,string token,string amount,uint64 time)"
      [] v = "ApproveAgent" ->
           "ApproveAgent(string hyperliquidChain,address agentAddress,string agentName,uint64 nonce)"
      [] v = "ApproveBuilderFee" ->
           "ApproveBuilderFee(string hyperliquidChain,string maxFeeRate,string builder,uint64 nonce)"
      [] v = "Agent" -> "Agent(string source,bytes32 connectionId)"

RECURSIVE JoinMembers(_)
JoinMembers(ms) ==
    IF ms = <<>> THEN ""
    ELSE ms[1][1] \o " " \o ms[1][2]
         \o (IF Len(ms) > 1 THEN "," ELSE "") \o JoinMembers(Tail(ms))

\* The type-signature string written out again from its members: TypeMembers
\* is a faithful reading of TYPE_STRING when the two agree.
RenderTypeString(v) == v \o "(" \o JoinMembers(TypeMembers(v)) \o ")"

\* HyperliquidAction::USE_PREFIX: true for hyperliquid_action!, false for l1_action!
USE_PREFIX(v) == v \in UserVariants

(***************************************************************************)
(* Rust field values and their serde_json form                             *)
(***************************************************************************)
RU64(n) == <<"u64", n>>
RString(s) == <<"string", s>>
RSome(s) == <<"some", s>>
RNone == <<"opt_none">>
RB256(h) == <<"b256", h>>

\* serde_json::to_value of one field: a u64 is a Number, a String a String,
\* Option<String> a String or Null, a B256 its 0x-hex text.
ToJsonValue(x) ==
    CASE x[1] = "u64" -> Num(x[2])
      [] x[1] = "string" -> Str(x[2])
      [] x[1] = "some" -> Str(x[2])
      [] x[1] = "opt_none" -> Null
      [] x[1] = "b256" -> <<"str_hex", x[2]>>

to_value_skip_none(a) ==
    [k \in {j \in DOMAIN a.f : a.f[j] # RNone} |-> ToJsonValue(a.f[k])]

\* serde_json::to_value(action): an object keyed by the camelCase field names.
to_value(a) == [k \in DOMAIN a.f |-> ToJsonValue(a.f[k])]

\* serde_json::Map is a BTreeMap<String, Value> (the crate's default): it
\* iterates in byte order of its keys.
AlphaKeys ==
    <<"agentAddress", "agentName", "amount", "builder", "connectionId",
      "destination", "hyperliquidChain", "maxFeeRate", "nonce",
      "signatureChainId", "source", "time", "token">>

MapIter(m) == SelectSeq(AlphaKeys, LAMBDA k : k \in DOMAIN m)
MapRemove(m, key) == [k \in DOMAIN m \ {key} |-> m[k]]

(***************************************************************************)
(* types/eip712.rs                                                         *)
(***************************************************************************)
\* Option<u64>
NoU64 == <<"opt_none">>
SomeU64(n) == <<"some", n>>

\* HyperliquidAction::chain_id: the trait's default; hyperliquid_action! does
\* not override it.
chain_id(a) == NoU64

ZeroAddress == "0x0000000000000000000000000000000000000000"

\* The domain l1_action! gives the Agent struct.
ExchangeDomain ==
    [name |-> "Exchange", version |-> "1", chainId |-> 1337,
     verifyingContract |-> ZeroAddress]

\* HyperliquidAction::domain
domain(a) ==
    IF a.variant = "Agent" THEN ExchangeDomain
    ELSE LET c == chain_id(a)
         IN [name |-> "HyperliquidSignTransaction", version |-> "1",
             chainId |-> IF c = NoU64 THEN 1 ELSE c[2],
             verifyingContract |-> ZeroAddress]

\* Eip712Domain::separator
separator(d) ==
    <<"keccak_domain", d.name, d.version, d.chainId, d.verifyingContract>>

type_hash_unprefixed(v) == KeccakText(TYPE_STRING(v))

\* HyperliquidAction::type_hash
type_hash(v) ==
    KeccakText(IF USE_PREFIX(v)
               THEN "HyperliquidTransaction:" \o TYPE_STRING(v)
               ELSE TYPE_STRING(v))

\* The big-endian bytes of n, len of them.
RECURSIVE BytesBE(_, _)
BytesBE(n, len) ==
    IF len = 0 THEN <<>> ELSE Append(BytesBE(n \div 256, len - 1), n % 256)

\* U256::to_be_bytes::<32>
to_be_bytes32(n) == BytesBE(n, 32)

\* The length in bytes of a word: the integer's big-endian form, or a B256.
WordLen(w) == IF w[1] = "u256" THEN Len(to_be_bytes32(w[2])) ELSE 32

\* encode_field
encode_field(value) ==
    CASE value[1] = "str" -> KeccakText(value[2])
      [] value[1] = "str_hex" -> <<"keccak_hextext", value[2]>>
      [] value[1] = "num" -> IF value[2] >= 0 THEN U256(value[2]) ELSE ZeroWord
      [] OTHER -> ZeroWord

encode_data_by_position(a) ==
    LET json == to_value(a)
        all == MapIter(json)
        order == Tail(all)
    IN <<type_hash(a.variant)>>
       \o [i \in 1..Len(order) |-> encode_field(json[order[i]])]

\* HyperliquidAction::encode_data
encode_data(a) ==
    LET map == MapRemove(to_value(a), "signatureChainId")
        order == MapIter(map)
    IN <<type_hash(a.variant)>>
       \o [i \in 1..Len(order) |-> encode_field(map[order[i]])]

\* HyperliquidAction::struct_hash
struct_hash(a) == KeccakWords(encode_data(a))

\* HyperliquidAction::eip712_signing_hash
eip712_signing_hash(a, d) ==
    <<"keccak_eip712", 25, 1, separator(d), struct_hash(a)>>

(***************************************************************************)
(* Encoder harness: an action instance drawn from a bounded set, and the   *)
(* encoder's functions applied to it.                                      *)
(***************************************************************************)
CHAIN_ID_MAINNET == 42161
CHAIN_ID_TESTNET == 421614

ChainIds == {CHAIN_ID_MAINNET, CHAIN_ID_TESTNET}
ChainNames == {"Mainnet", "Testnet"}
\* Addresses, as their 40 lowercase hex digits.
AddrA == "0d1d9635d0640821d15e323ac8adadfa9c111414"
AddrB == "70997970c51812dc3a010c7d01b50e0d17dc79c8"
Addresses == {AddrA, AddrB}
Amounts == {"1", "2.5"}
Times == {7, 1690393044}
ConnectionIds ==
    {ZeroWord,
     <<"bytes32", "de6c4037798a4434ca03cd05f00e3b803126221375cd1e7eaaaf041768be06eb">>}

\* An Address value is named by its 40 hex digits; these are its 20 bytes, a
\* nibble at a time.
Nibbles(a) ==
    CASE a = AddrA ->
           <<0, 13, 1, 13, 9, 6, 3, 5, 13, 0, 6, 4, 0, 8, 2, 1, 13, 1, 5, 14,
             3, 2, 3, 10, 12, 8, 10, 13, 10, 13, 15, 10, 9, 12, 1, 1, 1, 4, 1, 4>>
      [] a = AddrB ->
           <<7, 0, 9, 9, 7, 9, 7, 0, 12, 5, 1, 8, 1, 2, 13, 12, 3, 10, 0, 1,
             0, 12, 7, 13, 0, 1, 11, 5, 0, 14, 0, 13, 1, 7, 13, 12, 7, 9, 12, 8>>

HexChars == <<"0", "1", "2", "3", "4", "5", "6", "7", "8", "9",
              "a", "b", "c", "d", "e", "f">>

RECURSIVE JoinChars(_)
JoinChars(cs) == IF cs = <<>> THEN "" ELSE Head(cs) \o JoinChars(Tail(cs))

\* hex::encode
hex_encode(nibbles) == JoinChars([i \in 1..Len(nibbles) |-> HexChars[nibbles[i] + 1]])

HexAddress_Display(a) ==
    CASE a = AddrA -> "0x0D1d9635D0640821d15e323ac8AdADfA9c111414"
      [] a = AddrB -> "0x70997970C51812dc3A010C7d01b50e0d17dc79C8"

\* format!("0x{}", hex::encode(addr))
HexAddress(a) == "0x" \o hex_encode(Nibbles(a))

InstancesOf(v) ==
    CASE v \in {"UsdSend", "Withdraw"} ->
           {[variant |-> v,
             f |-> [signatureChainId |-> RU64(c), hyperliquidChain |-> RString(h),
                    destination |-> RString(HexAddress(d)), amount |-> RString(m),
                    time |-> RU64(t)]] :
             c \in ChainIds, h \in ChainNames, d \in Addresses, m \in Amounts,
             t \in Times}
      [] v = "SpotSend" ->
           {[variant |-> v,
             f |-> [signatureChainId |-> RU64(c), hyperliquidChain |-> RString(h),
                    destination |-> RString(HexAddress(d)),
                    token |-> RString("PURR:0xc1fb593aeffbeb02f85e0308e9956a90"),
                    amount |-> RString(m), time |-> RU64(t)]] :
             c \in ChainIds, h \in ChainNames, d \in Addresses, m \in Amounts,
             t \in Times}
      [] v = "ApproveAgent" ->
           {[variant |-> v,
             f |-> [signatureChainId |-> RU64(c), hyperliquidChain |-> RString(h),
                    agentAddress |-> RString(HexAddress(d)), agentName |-> n,
                    nonce |-> RU64(t)]] :
             c \in ChainIds, h \in ChainNames, d \in Addresses,
             n \in {RNone, RSome("Test Agent")}, t \in Times}
      [] v = "ApproveBuilderFee" ->
           {[variant |-> v,
             f |-> [signatureChainId |-> RU64(c), hyperliquidChain |-> RString(h),
                    maxFeeRate |-> RString(m), builder |-> RString(HexAddress(d)),
                    nonce |-> RU64(t)]] :
             c \in ChainIds, h \in ChainNames, d \in Addresses,
             m \in {"0.001%", "0.01%"}, t \in Times}
      [] v = "Agent" ->
           {[variant |-> v, f |-> [source |-> RString(src), connectionId |-> RB256(h)]] :
             src \in {"a", "b"}, h \in ConnectionIds}

EncInstances == UNION {InstancesOf(v) : v \in Variants}

\* The domains the signing tests build by hand.
user_action_domain(c) ==
    [name |-> "HyperliquidSignTransaction", version |-> "1", chainId |-> c,
     verifyingContract |-> ZeroAddress]

EncDomains(a) == {domain(a), ExchangeDomain, user_action_domain(CHAIN_ID_TESTNET)}

\* The signing tests' helper: compute_eip712_hash
compute_eip712_hash(domain_separator, sh) ==
    <<"keccak_eip712", 25, 1, domain_separator, sh>>

\* The struct encoding the signing tests write out by hand, for the values of
\* instance a: test_sign_usd_transfer_action, test_sign_withdraw_action,
\* test_sign_l1_action.
reference_encoded(a) ==
    CASE a.variant = "UsdSend" ->
           <<KeccakText("HyperliquidTransaction:UsdSend(string hyperliquidChain,string destination,string amount,uint64 time)"),
             KeccakText(a.f.hyperliquidChain[2]), KeccakText(a.f.destination[2]),
             KeccakText(a.f.amount[2]), U256(a.f.time[2])>>
      [] a.variant = "Withdraw" ->
           <<KeccakText("HyperliquidTransaction:Withdraw(string hyperliquidChain,string destination,string amount,uint64 time)"),
             KeccakText(a.f.hyperliquidChain[2]), KeccakText(a.f.destination[2]),
             KeccakText(a.f.amount[2]), U256(a.f.time[2])>>
      [] a.variant = "Agent" ->
           <<KeccakText("Agent(string source,bytes32 connectionId)"),
             KeccakText(a.f.source[2]), a.f.connectionId[2]>>

NoOut == [fn |-> "none", arg |-> <<>>, val |-> <<>>]

\* The rest of the state is not the encoder's.
EncFrame ==
    UNCHANGED <<encAct, wall, now, provider, limiter, pc, call, result, sigReq,
                posts, maxIssued, admitted, lastCheck, batchVars, wsVars>>

EncTypeHash ==
    /\ encOut' = [fn |-> "type_hash", arg |-> <<>>, val |-> type_hash(encAct.variant)]
    /\ EncFrame

EncEncodeData ==
    /\ encOut' = [fn |-> "encode_data", arg |-> <<>>, val |-> encode_data(encAct)]
    /\ EncFrame

EncStructHash ==
    /\ encOut' = [fn |-> "struct_hash", arg |-> <<>>, val |-> struct_hash(encAct)]
    /\ EncFrame

EncDomain ==
    /\ encOut' = [fn |-> "domain", arg |-> <<>>, val |-> domain(encAct)]
    /\ EncFrame

EncSigningHash ==
    \E d \in EncDomains(encAct) :
        /\ encOut' = [fn |-> "eip712_signing_hash", arg |-> d,
                      val |-> eip712_signing_hash(encAct, d)]
        /\ EncFrame

(***************************************************************************)
(* Signatures (signers/signer.rs) and their hex form (ExchangeProvider::post) *)
(***************************************************************************)
\* A U256 is held as its hexadecimal digits, most significant first, with no
\* leading zero (zero is <<0>>): at most 64 of them.
Rep(d, n) == [i \in 1..n |-> d]

U256Samples ==
    {<<0>>, <<1>> \o Rep(0, 62), Rep(15, 64), <<7>> \o Rep(10, 63), <<2, 11>>}

\* alloy's Parity, as the inner signer gives it: a bare parity bit, a
\* non-EIP-155 one, or an EIP-155 v (chain_id * 2 + 35 + parity).
Parities ==
    {<<"Parity", b>> : b \in BOOLEAN} \cup {<<"NonEip155", b>> : b \in BOOLEAN}
    \cup {<<"Eip155", v>> : v \in {37, 38, 2709, 2710}}

SigInstances ==
    {[variant |-> "Signature", r |-> r, s |-> s, v |-> par] :
       r \in U256Samples, s \in U256Samples, par \in Parities}

\* AlloySigner::sign_hash, from the inner signature on: HyperliquidSignature
sign_hash(sig) ==
    [r |-> sig.r, s |-> sig.s,
     v |-> CASE sig.v[1] = "Eip155" -> sig.v[2]
             [] sig.v[1] = "NonEip155" -> IF sig.v[2] THEN 28 ELSE 27
             [] sig.v[1] = "Parity" -> IF sig.v[2] THEN 28 ELSE 27]

\* The hexadecimal digits of a u64, most significant first.
RECURSIVE HexDigits(_)
HexDigits(n) == IF n < 16 THEN <<n>> ELSE Append(HexDigits(n \div 16), n % 16)

\* {:0Wx}: lowercase hex, zero-padded on the left up to the width, never cut.
FormatHex(digits, width) ==
    LET pad == IF Len(digits) < width THEN width - Len(digits) ELSE 0
    IN Rep("0", pad) \o [i \in 1..Len(digits) |-> HexChars[digits[i] + 1]]

\* ExchangeProvider::post: format!("{:064x}{:064x}{:02x}", r, s, v)
sig_hex(signature) ==
    FormatHex(signature.r, 64) \o FormatHex(signature.s, 64)
    \o FormatHex(HexDigits(signature.v), 2)

SigSignHash ==
    /\ encAct.variant = "Signature"
    /\ encOut' = [fn |-> "sign_hash", arg |-> <<>>, val |-> sign_hash(encAct)]
    /\ EncFrame

SigPost ==
    /\ encAct.variant = "Signature"
    /\ encOut' = [fn |-> "sig_hex", arg |-> sign_hash(encAct),
                  val |-> sig_hex(sign_hash(encAct))]
    /\ EncFrame

(***************************************************************************)
(* Constants of the crate (constants.rs), scaled to a checkable size       *)
(***************************************************************************)
EXCHANGE_ENDPOINT_MAINNET == "https://api.hyperliquid.xyz/exchange"
EXCHANGE_ENDPOINT_TESTNET == "https://api.hyperliquid-testnet.xyz/exchange"
AGENT_SOURCE_MAINNET == "a"
AGENT_SOURCE_TESTNET == "b"

RATE_LIMIT_MAX_TOKENS == 3
RATE_LIMIT_REFILL_RATE == 1
WEIGHT_PLACE_ORDER == 1
WEIGHT_CANCEL_ORDER == 1
WEIGHT_MODIFY_ORDER == 2
WEIGHT_BULK_ORDER == 3
WEIGHT_BULK_CANCEL == 3

(***************************************************************************)
(* Bounds                                                                  *)
(***************************************************************************)
MaxWall == 3     \* the wall clock takes the values 0..MaxWall
MaxNow == 3      \* the monotonic clock takes the values 0..MaxNow

NoAddr == "none"                        \* Option<Address>::None
Min(a, b) == IF a < b THEN a ELSE b
Max(a, b) == IF a > b THEN a ELSE b

(***************************************************************************)
(* RateLimiter (providers/info.rs)                                         *)
(***************************************************************************)
\* RateLimiter::new(max_tokens, refill_rate)
NewRateLimiter(t) == [tokens |-> RATE_LIMIT_MAX_TOKENS, last_refill |-> t]

Refill(lim, t) ==
    Min(RATE_LIMIT_MAX_TOKENS,
        lim.tokens + (t - lim.last_refill) * RATE_LIMIT_REFILL_RATE)

check_weight_unchecked(lim, t, weight) ==
    [lim |-> [tokens |-> Refill(lim, t) - weight, last_refill |-> t],
     res |-> <<"Ok">>]

check_weight_uncapped(lim, t, weight) ==
    LET avail == lim.tokens + (t - lim.last_refill) * RATE_LIMIT_REFILL_RATE
    IN IF avail >= weight
       THEN [lim |-> [tokens |-> avail - weight, last_refill |-> t], res |-> <<"Ok">>]
       ELSE [lim |-> [tokens |-> avail, last_refill |-> t],
             res |-> <<"RateLimited", avail, weight>>]

check_weight_strict(lim, t, weight) ==
    LET avail == Refill(lim, t)
    IN IF avail > weight
       THEN [lim |-> [tokens |-> avail - weight, last_refill |-> t], res |-> <<"Ok">>]
       ELSE [lim |-> [tokens |-> avail, last_refill |-> t],
             res |-> <<"RateLimited", avail, weight>>]

\* RateLimiter::check_weight(weight), called at instant t: the limiter after
\* the call and what the call returns.
check_weight(lim, t, weight) ==
    LET avail == Refill(lim, t)
    IN IF avail >= weight
       THEN [lim |-> [tokens |-> avail - weight, last_refill |-> t], res |-> <<"Ok">>]
       ELSE [lim |-> [tokens |-> avail, last_refill |-> t],
             res |-> <<"RateLimited", avail, weight>>]

(***************************************************************************)
(* ExchangeProvider (providers/exchange.rs): the operations                *)
(***************************************************************************)
OrderOps == {"place_order", "place_order_with_builder_fee", "place_order_with_cloid",
             "bulk_orders", "bulk_orders_with_builder_fee", "bulk_orders_with_cloids",
             "order_builder_send"}
CancelOps == {"cancel_order", "cancel_order_by_cloid", "bulk_cancel",
              "bulk_cancel_by_cloid"}
ModifyOps == {"modify_order", "bulk_modify"}
AccountOps == {"update_leverage", "update_isolated_margin", "set_referrer",
               "vault_transfer", "spot_transfer_to_perp"}
L1Ops == OrderOps \cup CancelOps \cup ModifyOps \cup AccountOps
UserOps == {"usd_transfer", "withdraw", "spot_transfer", "approve_agent",
            "approve_builder_fee"}
Ops == L1Ops \cup UserOps

\* The weight an operation hands to rate_limiter.check_weight before it
\* sends; 0 for an operation whose body makes no such call.
OpWeight(op) ==
    CASE op \in {"place_order", "place_order_with_builder_fee",
                 "place_order_with_cloid", "order_builder_send"} -> WEIGHT_PLACE_ORDER
      [] op \in {"cancel_order", "cancel_order_by_cloid"} -> WEIGHT_CANCEL_ORDER
      [] op = "modify_order" -> WEIGHT_MODIFY_ORDER
      [] op \in {"bulk_orders", "bulk_orders_with_builder_fee",
                 "bulk_orders_with_cloids", "bulk_modify"} -> WEIGHT_BULK_ORDER
      [] op \in {"bulk_cancel", "bulk_cancel_by_cloid"} -> WEIGHT_BULK_CANCEL
      [] OTHER -> 0

\* The action_type string an L1 operation passes to send_l1_action.
ActionType(op) ==
    CASE op \in OrderOps -> "order"
      [] op \in {"cancel_order", "bulk_cancel"} -> "cancel"
      [] op \in {"cancel_order_by_cloid", "bulk_cancel_by_cloid"} -> "cancelByCloid"
      [] op \in ModifyOps -> "batchModify"
      [] op = "update_leverage" -> "updateLeverage"
      [] op = "update_isolated_margin" -> "updateIsolatedMargin"
      [] op = "set_referrer" -> "setReferrer"
      [] op = "vault_transfer" -> "vaultTransfer"
      [] op = "spot_transfer_to_perp" -> "spotUser"

\* The struct a user operation builds.
UserVariant(op) ==
    CASE op = "usd_transfer" -> "UsdSend"
      [] op = "withdraw" -> "Withdraw"
      [] op = "spot_transfer" -> "SpotSend"
      [] op = "approve_agent" -> "ApproveAgent"
      [] op = "approve_builder_fee" -> "ApproveBuilderFee"

\* ExchangeProvider::infer_network
infer_network(prov) ==
    IF prov.endpoint = EXCHANGE_ENDPOINT_TESTNET
    THEN <<CHAIN_ID_TESTNET, AGENT_SOURCE_TESTNET>>
    ELSE <<CHAIN_ID_MAINNET, AGENT_SOURCE_MAINNET>>

\* ExchangeProvider::current_nonce
current_nonce(w) == w

(***************************************************************************)
(* The values the operations build                                         *)
(***************************************************************************)
SampleOrder ==
    [asset |-> 0, isBuy |-> TRUE, limitPx |-> "45000.0", sz |-> "0.01",
     reduceOnly |-> FALSE, orderType |-> "limit:Gtc", cloid |-> "none"]
SampleCloid == "0000000000000000000000000000c10d"
SampleFee == 5
SampleOid == 91

\* OrderRequest::with_cloid
with_cloid(order, cloid) == [order EXCEPT !.cloid = cloid]

BulkOrder_FeeOnly(orders, prov, fee) ==
    IF prov.builder = NoAddr \/ fee = 0
    THEN [orders |-> orders, grouping |-> "na"]
    ELSE [orders |-> orders, grouping |-> "na",
          builder |-> [builder |-> HexAddress(prov.builder), fee |-> fee]]

BulkOrder_FeeAlways(orders, prov, fee) ==
    IF prov.builder = NoAddr /\ fee = 0
    THEN [orders |-> orders, grouping |-> "na"]
    ELSE [orders |-> orders, grouping |-> "na",
          builder |-> [builder |-> IF prov.builder = NoAddr THEN ZeroAddress
                                   ELSE HexAddress(prov.builder),
                       fee |-> fee]]

\* BulkOrder as serde_json renders it: `builder` is skipped when it is None.
BulkOrder(orders, prov, fee) ==
    IF prov.builder = NoAddr
    THEN [orders |-> orders, grouping |-> "na"]
    ELSE [orders |-> orders, grouping |-> "na",
          builder |-> [builder |-> HexAddress(prov.builder), fee |-> fee]]

\* The action struct an L1 operation hands to send_l1_action, as JSON.
L1Action(op, prov) ==
    CASE op \in {"place_order", "order_builder_send"} ->
           BulkOrder(<<SampleOrder>>, prov, 0)
      [] op = "place_order_with_builder_fee" ->
           BulkOrder(<<SampleOrder>>, prov, SampleFee)
      [] op = "place_order_with_cloid" ->
           BulkOrder(<<with_cloid(SampleOrder, SampleCloid)>>, prov, 0)
      [] op = "bulk_orders" ->
           BulkOrder(<<SampleOrder, SampleOrder>>, prov, 0)
      [] op = "bulk_orders_with_builder_fee" ->
           BulkOrder(<<SampleOrder, SampleOrder>>, prov, SampleFee)
      [] op = "bulk_orders_with_cloids" ->
           BulkOrder(<<with_cloid(SampleOrder, SampleCloid),
                       with_cloid(SampleOrder, "none")>>, prov, 0)
      [] op \in {"cancel_order", "bulk_cancel"} ->
           [cancels |-> <<[asset |-> 0, oid |-> SampleOid]>>]
      [] op \in {"cancel_order_by_cloid", "bulk_cancel_by_cloid"} ->
           [cancels |-> <<[asset |-> 0, cloid |-> SampleCloid]>>]
      [] op \in ModifyOps ->
           [modifies |-> <<[oid |-> SampleOid, order |-> SampleOrder]>>]
      [] op = "update_leverage" -> [asset |-> 0, isCross |-> TRUE, leverage |-> 10]
      [] op = "update_isolated_margin" -> [asset |-> 0, isBuy |-> TRUE, ntli |-> 100]
      [] op = "set_referrer" -> [code |-> "REF"]
      [] op = "vault_transfer" ->
           [vaultAddress |-> HexAddress(AddrB), isDeposit |-> TRUE, usd |-> 100]
      [] op = "spot_transfer_to_perp" ->
           [classTransfer |-> [usdSize |-> 100, toPerp |-> TRUE]]

\* The struct a user operation builds: signature_chain_id and
\* hyperliquid_chain from infer_network, the time/nonce from current_nonce.
UserAction(op, prov, w) ==
    LET c == infer_network(prov)[1]
        chain == IF c = CHAIN_ID_MAINNET THEN "Mainnet" ELSE "Testnet"
    IN [variant |-> UserVariant(op),
        f |-> CASE op \in {"usd_transfer", "withdraw"} ->
                     [signatureChainId |-> RU64(c), hyperliquidChain |-> RString(chain),
                      destination |-> RString(HexAddress(AddrA)),
                      amount |-> RString("1"), time |-> RU64(current_nonce(w))]
                [] op = "spot_transfer" ->
                     [signatureChainId |-> RU64(c), hyperliquidChain |-> RString(chain),
                      destination |-> RString(HexAddress(AddrA)),
                      token |-> RString("PURR:0xc1fb593aeffbeb02f85e0308e9956a90"),
                      amount |-> RString("1"), time |-> RU64(current_nonce(w))]
                [] op = "approve_agent" ->
                     [signatureChainId |-> RU64(c), hyperliquidChain |-> RString(chain),
                      agentAddress |-> RString(HexAddress(AddrA)),
                      agentName |-> RNone, nonce |-> RU64(current_nonce(w))]
                [] op = "approve_builder_fee" ->
                     [signatureChainId |-> RU64(c), hyperliquidChain |-> RString(chain),
                      maxFeeRate |-> RString("0.001%"),
                      builder |-> RString(HexAddress(AddrA)),
                      nonce |-> RU64(current_nonce(w))]]

\* map.insert("type", json!(action_type))
InsertType(json, ty) ==
    [k \in DOMAIN json \cup {"type"} |-> IF k = "type" THEN ty ELSE json[k]]

\* ExchangeProvider::hash_action: keccak of the MessagePack bytes of the
\* tagged action, the big-endian timestamp and the vault marker.
hash_action(action_type, action, timestamp, vault_address) ==
    <<"keccak_msgpack", InsertType(action, action_type), timestamp, vault_address>>

\* The Agent struct send_l1_action signs.
AgentOf(prov, connection_id) ==
    [variant |-> "Agent",
     f |-> [source |-> RString(infer_network(prov)[2]),
            connectionId |-> RB256(connection_id)]]

L1SigningHashUserDomain(op, prov, nonce) ==
    LET agent == AgentOf(prov, hash_action(ActionType(op), L1Action(op, prov), nonce,
                                           prov.vault_address))
    IN eip712_signing_hash(agent, user_action_domain(infer_network(prov)[1]))

\* send_l1_action, up to the signer: the digest it asks the signer to sign.
L1SigningHash(op, prov, nonce) ==
    LET agent == AgentOf(prov, hash_action(ActionType(op), L1Action(op, prov), nonce,
                                           prov.vault_address))
    IN eip712_signing_hash(agent, domain(agent))

\* send_user_action, up to the signer.
UserSigningHash(action) == eip712_signing_hash(action, domain(action))

\* send_l1_action: the action object it posts.
L1FinalAction(op, prov) ==
    LET action_value == InsertType(L1Action(op, prov), ActionType(op))
    IN IF prov.agent # NoAddr
       THEN [type |-> "agent", agentAddress |-> HexAddress(prov.agent),
             agentAction |-> action_value, source |-> infer_network(prov)[2]]
       ELSE action_value

\* send_user_action: the action object it posts, tagged with the last
\* segment of the struct's type name.
UserFinalAction(action) == InsertType(to_value(action), action.variant)

\* send_user_action: the nonce it posts, read back from the action's JSON.
UserNonce(action, w) ==
    LET json == to_value(action)
        v == IF "time" \in DOMAIN json THEN json["time"]
             ELSE IF "nonce" \in DOMAIN json THEN json["nonce"]
             ELSE Null
    IN IF v[1] = "num" /\ v[2] >= 0 THEN v[2] ELSE current_nonce(w)

\* ExchangeProvider::post: the JSON payload.
Payload(prov, action, signature, nonce) ==
    [action |-> action,
     signature |-> <<"hex", signature>>,
     nonce |-> nonce,
     vaultAddress |-> IF prov.vault_address = NoAddr THEN "null"
                      ELSE HexAddress(prov.vault_address)]

(***************************************************************************)
(* Calls                                                                   *)
(***************************************************************************)
Pending == <<"pending">>
\* No response received (yet).
NoResp == [transport |-> FALSE, status |-> -1, body |-> ""]
NoCall == [prov |-> "none", op |-> "none", nonce |-> -1, checked |-> 0,
           resp |-> NoResp]

IsL1(op) == op \in L1Ops

BeforeSendDeferred(op, complete, lim, t) ==
    IF ~complete
    THEN [ret |-> <<"InvalidRequest", "is_buy must be specified">>, lim |-> lim,
          checked |-> 0, proceed |-> TRUE]
    ELSE IF OpWeight(op) > 0
    THEN LET c == check_weight(lim, t, OpWeight(op))
         IN [ret |-> IF c.res = <<"Ok">> THEN Pending ELSE c.res, lim |-> c.lim,
             checked |-> IF c.res = <<"Ok">> THEN OpWeight(op) ELSE 0,
             proceed |-> TRUE]
    ELSE [ret |-> Pending, lim |-> lim, checked |-> 0, proceed |-> TRUE]

\* What an operation does before it reaches send_l1_action or
\* send_user_action: OrderBuilder::build()? and rate_limiter.check_weight(w)?,
\* each returning its error at once.  `complete` says whether the builder has
\* its side, price and size.  ret: what the call returns if it stops here;
\* checked: the weight an admission check admitted, 0 if none did.
BeforeSend(op, complete, lim, t) ==
    IF ~complete
    THEN [ret |-> <<"InvalidRequest", "is_buy must be specified">>, lim |-> lim,
          checked |-> 0, proceed |-> FALSE]
    ELSE IF OpWeight(op) > 0
    THEN LET c == check_weight(lim, t, OpWeight(op))
         IN [ret |-> IF c.res = <<"Ok">> THEN Pending ELSE c.res, lim |-> c.lim,
             checked |-> IF c.res = <<"Ok">> THEN OpWeight(op) ELSE 0,
             proceed |-> c.res = <<"Ok">>]
    ELSE [ret |-> Pending, lim |-> lim, checked |-> 0, proceed |-> TRUE]

\* The digest a call hands to the signer.
SigningHashOf(op, prov, nonce) ==
    IF IsL1(op) THEN L1SigningHash(op, prov, nonce)
    ELSE UserSigningHash(UserAction(op, prov, nonce))

Call_SharedLimiter(t, p, op, complete) ==
    /\ pc[t] = "idle"
    /\ LET prov == provider[p]
           pre == BeforeSend(op, complete, limiter[p], now)
           nonce == current_nonce(wall)
       IN /\ limiter' = [q \in DOMAIN limiter |-> pre.lim]
          /\ result' = [result EXCEPT ![t] = pre.ret]
          /\ IF pre.proceed
             THEN /\ pc' = [pc EXCEPT ![t] = "signing"]
                  /\ call' = [call EXCEPT ![t] = [prov |-> p, op |-> op, nonce |-> nonce,
                                                  checked |-> pre.checked,
                                                  resp |-> NoResp]]
                  /\ sigReq' = [sigReq EXCEPT ![t] = <<SigningHashOf(op, prov, nonce)>>]
                  /\ maxIssued' = [maxIssued EXCEPT ![p] = Max(@, nonce)]
             ELSE /\ pc' = [pc EXCEPT ![t] = "done"]
                  /\ call' = [call EXCEPT ![t] = [prov |-> p, op |-> op, nonce |-> -1,
                                                  checked |-> pre.checked,
                                                  resp |-> NoResp]]
                  /\ sigReq' = [sigReq EXCEPT ![t] = <<>>]
                  /\ UNCHANGED maxIssued
    /\ posts' = [posts EXCEPT ![t] = <<>>]
    /\ UNCHANGED <<batchVars, wsVars, encVars, clockVars, provider, histVars>>

\* A task calls an operation of provider p.  The call runs without
\* suspending up to its first await, the signer's.
Call(t, p, op, complete) ==
    /\ pc[t] = "idle"
    /\ LET prov == provider[p]
           pre == BeforeSend(op, complete, limiter[p], now)
           nonce == current_nonce(wall)
       IN /\ limiter' = [limiter EXCEPT ![p] = pre.lim]
          /\ result' = [result EXCEPT ![t] = pre.ret]
          /\ IF pre.proceed
             THEN /\ pc' = [pc EXCEPT ![t] = "signing"]
                  /\ call' = [call EXCEPT ![t] = [prov |-> p, op |-> op, nonce |-> nonce,
                                                  checked |-> pre.checked,
                                                  resp |-> NoResp]]
                  /\ sigReq' = [sigReq EXCEPT ![t] = <<SigningHashOf(op, prov, nonce)>>]
                  /\ maxIssued' = [maxIssued EXCEPT ![p] = Max(@, nonce)]
             ELSE /\ pc' = [pc EXCEPT ![t] = "done"]
                  /\ call' = [call EXCEPT ![t] = [prov |-> p, op |-> op, nonce |-> -1,
                                                  checked |-> pre.checked,
                                                  resp |-> NoResp]]
                  /\ sigReq' = [sigReq EXCEPT ![t] = <<>>]
                  /\ UNCHANGED maxIssued
    /\ posts' = [posts EXCEPT ![t] = <<>>]
    /\ UNCHANGED <<batchVars, wsVars, encVars, clockVars, provider, histVars>>

PayloadOf_FreshNonce(c, prov, signature) ==
    IF IsL1(c.op)
    THEN Payload(prov, L1FinalAction(c.op, prov), signature, current_nonce(wall))
    ELSE LET action == UserAction(c.op, prov, c.nonce)
         IN Payload(prov, UserFinalAction(action), signature, current_nonce(wall))

\* The payload the call posts once it holds the signature: an L1 action with
\* the nonce send_l1_action took before hashing, a user action with the nonce
\* read back from its JSON (the clock, read now, if it has none).
PayloadOf(c, prov, signature) ==
    IF IsL1(c.op)
    THEN Payload(prov, L1FinalAction(c.op, prov), signature, c.nonce)
    ELSE LET action == UserAction(c.op, prov, c.nonce)
         IN Payload(prov, UserFinalAction(action), signature, UserNonce(action, wall))

SignReturn_PostsUnsigned(t, ok) ==
    /\ pc[t] = "signing"
    /\ posts' = [posts EXCEPT
                   ![t] = Append(@, PayloadOf(call[t], provider[call[t].prov],
                                              <<"signature", sigReq[t][Len(sigReq[t])]>>))]
    /\ IF ok
       THEN /\ pc' = [pc EXCEPT ![t] = "posting"]
            /\ UNCHANGED result
       ELSE /\ result' = [result EXCEPT ![t] = <<"Signer", "SigningFailed">>]
            /\ pc' = [pc EXCEPT ![t] = "done"]
    /\ UNCHANGED <<batchVars, wsVars, encVars, clockVars, provider, limiter, call, sigReq, maxIssued,
                   histVars>>

\* The signer answers.  On an error the call returns it; on a signature the
\* call builds the payload and sends the POST (its next await).
SignReturn(t, ok) ==
    /\ pc[t] = "signing"
    /\ IF ok
       THEN LET digest == sigReq[t][Len(sigReq[t])]
                signature == <<"signature", digest>>
            IN /\ posts' = [posts EXCEPT
                              ![t] = Append(@, PayloadOf(call[t], provider[call[t].prov],
                                                         signature))]
               /\ pc' = [pc EXCEPT ![t] = "posting"]
               /\ UNCHANGED result
       ELSE /\ result' = [result EXCEPT ![t] = <<"Signer", "SigningFailed">>]
            /\ pc' = [pc EXCEPT ![t] = "done"]
            /\ UNCHANGED posts
    /\ UNCHANGED <<batchVars, wsVars, encVars, clockVars, provider, limiter, call, sigReq, maxIssued,
                   histVars>>

\* What the transport can answer to one POST.
Statuses == {200, 299, 300, 500}
Bodies == {"ok-envelope", "err-envelope", "not-json"}

HttpOutcomes ==
    {[transport |-> FALSE, status |-> 0, body |-> ""]}
    \cup {[transport |-> TRUE, status |-> st, body |-> b] : st \in Statuses, b \in Bodies}

\* serde_json::from_slice::<ExchangeResponseStatus>
Decodes(body) == body \in {"ok-envelope", "err-envelope"}

PostResult_DecodeFirst(o) ==
    IF ~o.transport THEN <<"Network", "request failed">>
    ELSE IF Decodes(o.body) THEN <<"Ok", o.body>>
    ELSE IF ~(o.status >= 200 /\ o.status < 300) THEN <<"Http", o.status, o.body>>
    ELSE <<"InvalidResponse", "Failed to parse exchange response">>

PostResult_RejectionAsError(o) ==
    IF ~o.transport THEN <<"Network", "request failed">>
    ELSE IF ~(o.status >= 200 /\ o.status < 300) \/ o.body = "err-envelope"
    THEN <<"Http", o.status, o.body>>
    ELSE IF Decodes(o.body) THEN <<"Ok", o.body>>
    ELSE <<"InvalidResponse", "Failed to parse exchange response">>

\* ExchangeProvider::post, from the response on.
PostResult(o) ==
    IF ~o.transport THEN <<"Network", "request failed">>
    ELSE IF ~(o.status >= 200 /\ o.status < 300) THEN <<"Http", o.status, o.body>>
    ELSE IF Decodes(o.body) THEN <<"Ok", o.body>>
    ELSE <<"InvalidResponse", "Failed to parse exchange response">>

HttpReturn_Retry(t, o) ==
    /\ pc[t] = "posting"
    /\ call' = [call EXCEPT ![t].resp = o]
    /\ IF ~o.transport /\ Len(posts[t]) < 2
       THEN /\ posts' = [posts EXCEPT ![t] = Append(@, @[Len(@)])]
            /\ UNCHANGED <<result, pc>>
       ELSE /\ result' = [result EXCEPT ![t] = PostResult(o)]
            /\ pc' = [pc EXCEPT ![t] = "done"]
            /\ UNCHANGED posts
    /\ UNCHANGED <<batchVars, wsVars, encVars, clockVars, provider, limiter, sigReq, maxIssued, histVars>>

\* The response arrives (or the transport fails); post returns.
HttpReturn(t, o) ==
    /\ pc[t] = "posting"
    /\ call' = [call EXCEPT ![t].resp = o]
    /\ result' = [result EXCEPT ![t] = PostResult(o)]
    /\ pc' = [pc EXCEPT ![t] = "done"]
    /\ UNCHANGED <<batchVars, wsVars, encVars, clockVars, provider, limiter, sigReq, posts,
                   maxIssued, histVars>>

\* The caller takes the result; the task is free for its next call.
Return(t) ==
    /\ pc[t] = "done"
    /\ pc' = [pc EXCEPT ![t] = "idle"]
    /\ call' = [call EXCEPT ![t] = NoCall]
    /\ result' = [result EXCEPT ![t] = Pending]
    /\ sigReq' = [sigReq EXCEPT ![t] = <<>>]
    /\ posts' = [posts EXCEPT ![t] = <<>>]
    /\ UNCHANGED <<batchVars, wsVars, encVars, clockVars, provider, limiter, maxIssued, histVars>>

\* A millisecond passes on both clocks.
Tick ==
    /\ now < MaxNow
    /\ wall < MaxWall
    /\ now' = now + 1
    /\ wall' = wall + 1
    /\ UNCHANGED <<batchVars, wsVars, encVars, provider, limiter, taskVars, maxIssued, histVars>>

\* The wall clock is set (NTP, an operator): SystemTime is not monotonic.
ClockAdjust ==
    /\ \E w \in 0..MaxWall : w # wall /\ wall' = w
    /\ UNCHANGED <<batchVars, wsVars, encVars, now, provider, limiter, taskVars, maxIssued, histVars>>

(***************************************************************************)
(* Direct use of the rate limiter (it is exported: providers::RateLimiter) *)
(***************************************************************************)
Weights == {WEIGHT_PLACE_ORDER, WEIGHT_CANCEL_ORDER, WEIGHT_MODIFY_ORDER,
            WEIGHT_BULK_ORDER, WEIGHT_BULK_CANCEL}

NoCheck == [prov |-> "none", weight |-> 0, at |-> 0,
            before |-> NewRateLimiter(0), after |-> NewRateLimiter(0),
            res |-> <<"Ok">>]

\* One check_weight(w) on provider p's limiter, under its lock.
Admit(p, w) ==
    LET c == check_weight(limiter[p], now, w)
    IN /\ limiter' = [limiter EXCEPT ![p] = c.lim]
       /\ admitted' = [admitted EXCEPT
                         ![p][now] = @ + (IF c.res = <<"Ok">> THEN w ELSE 0)]
       /\ lastCheck' = [prov |-> p, weight |-> w, at |-> now,
                        before |-> limiter[p], after |-> c.lim, res |-> c.res]
       /\ UNCHANGED <<batchVars, wsVars, encVars, clockVars, provider, taskVars, maxIssued>>

(***************************************************************************)
(* Order tracker and batcher (providers/batcher.rs, order_tracker.rs)      *)
(***************************************************************************)
MAX_BATCH_SIZE == 3      \* the configured maximum intent count of a window
MAX_BATCH_WAIT == 2      \* the configured maximum age of a window
MaxIntents == 3          \* intents submitted in one run

\* The orders the callers submit: the id-th submission is order id - 1, so no
\* two intents carry the same order and a position in a batch names one order.
BatchOrders == {[asset |-> a] : a \in 0..(MaxIntents - 1)}

\* handle: the caller's one-shot completion handle, "held" until the caller
\* abandons its wait, "dropped" after.
NewIntent(order) ==
    [order |-> order, batch |-> 0, pos |-> 0, outcome |-> Pending, resolutions |-> 0,
     handle |-> "held"]

\* A window that has reached the maximum size, or the maximum age, is due.
WindowFull_Over(w) == Len(w) > MAX_BATCH_SIZE

WindowFull(w) == Len(w) >= MAX_BATCH_SIZE
WindowExpired(age) == age >= MAX_BATCH_WAIT

\* The window is closed and handed to the dispatcher as one batch: its orders
\* in window order (one bulk order call), every intent bound to its position.
BatchOf(w, ints, why) ==
    [ids |-> w, orders |-> [i \in 1..Len(w) |-> ints[w[i]].order], why |-> why,
     state |-> "inflight", response |-> <<>>]

BindBatch(ints, w, b) ==
    [id \in 1..Len(ints) |->
        IF \E i \in 1..Len(w) : w[i] = id
        THEN [ints[id] EXCEPT !.batch = b,
                              !.pos = CHOOSE i \in 1..Len(w) : w[i] = id]
        ELSE ints[id]]

Flush(w, ints, why) ==
    /\ batches' = Append(batches, BatchOf(w, ints, why))
    /\ intents' = BindBatch(ints, w, Len(batches) + 1)
    /\ window' = <<>>
    /\ windowAge' = 0

BatchFrame ==
    UNCHANGED <<encVars, clockVars, provider, limiter, taskVars, maxIssued, histVars,
                wsVars>>

\* submit(order): a new intent joins the open window (a window is opened if
\* none is); a window that is full with it is flushed at once.
Submit(order) ==
    /\ ~shutdown
    /\ Len(intents) < MaxIntents
    /\ LET id == Len(intents) + 1
           ints == Append(intents, NewIntent(order))
           w == Append(window, id)
       IN IF WindowFull(w)
          THEN Flush(w, ints, "size")
          ELSE /\ window' = w
               /\ intents' = ints
               /\ windowAge' = IF window = <<>> THEN 0 ELSE windowAge
               /\ UNCHANGED batches
    /\ UNCHANGED shutdown
    /\ BatchFrame

\* The flush timer: the open window ages; at the maximum wait it is flushed.
BatchTick ==
    /\ window # <<>>
    /\ IF WindowExpired(windowAge + 1)
       THEN Flush(window, intents, "wait")
       ELSE /\ windowAge' = windowAge + 1
            /\ UNCHANGED <<window, intents, batches>>
    /\ UNCHANGED shutdown
    /\ BatchFrame

Shutdown_Drops ==
    /\ ~shutdown
    /\ shutdown' = TRUE
    /\ window' = <<>>
    /\ windowAge' = 0
    /\ UNCHANGED <<intents, batches>>
    /\ BatchFrame

\* The process shuts down: a window still open is flushed.
Shutdown ==
    /\ ~shutdown
    /\ shutdown' = TRUE
    /\ IF window # <<>>
       THEN Flush(window, intents, "shutdown")
       ELSE UNCHANGED <<window, windowAge, intents, batches>>
    /\ BatchFrame

\* What the dispatch of a batch of n orders can come back with: a failure of
\* the dispatch itself, or a response with one status per order, the venue's
\* order id or its rejection of that order.
BatchFailures == {<<"Network", "request failed">>, <<"Signer", "SigningFailed">>}

StatusesAt(b, i) == {<<"resting", 10 * b + i>>, <<"error", "rejected", 10 * b + i>>}

BatchResponses(b, n) ==
    {r \in [1..n -> UNION {StatusesAt(b, i) : i \in 1..n}] :
        \A i \in 1..n : r[i] \in StatusesAt(b, i)}

\* The outcome the i-th intent of a batch gets from the batch's response.
Demux_Reversed(response, i) == response[Len(response) + 1 - i]

Demux(response, i) == response[i]

\* Every intent of batch b gets the outcome at its position.
Resolve(ints, b, outcomes) ==
    [id \in 1..Len(ints) |->
        IF ints[id].batch = b
        THEN [ints[id] EXCEPT !.outcome = outcomes[ints[id].pos],
                              !.resolutions = @ + 1]
        ELSE ints[id]]

BatchFails_Requeue(b, failure) ==
    /\ b \in 1..Len(batches)
    /\ batches[b].state = "inflight"
    /\ batches' = [batches EXCEPT ![b].state = "failed", ![b].response = failure]
    /\ intents' = Resolve(intents, b,
                        [i \in 1..Len(batches[b].ids) |-> <<"failure", failure>>])
    /\ window' = batches[b].ids \o window
    /\ UNCHANGED <<windowAge, shutdown>>
    /\ BatchFrame

\* The dispatch of batch b fails: every intent of it gets that failure.
BatchFails(b, failure) ==
    /\ b \in 1..Len(batches)
    /\ batches[b].state = "inflight"
    /\ batches' = [batches EXCEPT ![b].state = "failed", ![b].response = failure]
    /\ intents' = Resolve(intents, b,
                        [i \in 1..Len(batches[b].ids) |-> <<"failure", failure>>])
    /\ UNCHANGED <<window, windowAge, shutdown>>
    /\ BatchFrame

\* The response of batch b arrives: it is demultiplexed by position.
BatchResponds(b, response) ==
    /\ b \in 1..Len(batches)
    /\ batches[b].state = "inflight"
    /\ batches' = [batches EXCEPT ![b].state = "answered", ![b].response = response]
    /\ intents' = Resolve(intents, b,
                        [i \in 1..Len(batches[b].ids) |-> Demux(response, i)])
    /\ UNCHANGED <<window, windowAge, shutdown>>
    /\ BatchFrame

Abandon_Removes(id) ==
    /\ id \in 1..Len(intents)
    /\ intents[id].handle = "held"
    /\ intents[id].batch = 0
    /\ intents' = [intents EXCEPT
                     ![id].handle = "dropped"]
    /\ window' = SelectSeq(window, LAMBDA w : w # id)
    /\ UNCHANGED <<windowAge, batches, shutdown>>
    /\ BatchFrame

\* A caller abandons its wait on intent id (drops its handle, or times out)
\* before the intent's window is flushed: the handle is gone; the intent stays
\* where it is.
Abandon(id) ==
    /\ id \in 1..Len(intents)
    /\ intents[id].handle = "held"
    /\ intents[id].batch = 0
    /\ intents' = [intents EXCEPT
                     ![id].handle = "dropped"]
    /\ UNCHANGED <<window, windowAge, batches, shutdown>>
    /\ BatchFrame

(***************************************************************************)
(* OrderBuilder (providers/exchange.rs)                                    *)
(***************************************************************************)
\* OrderBuilder::new
OrderBuilder_new(asset) ==
    [variant |-> "OrderBuilder", asset |-> asset, is_buy |-> RNone, limit_px |-> RNone,
     sz |-> RNone, reduce_only |-> FALSE, order_type |-> RNone, cloid |-> RNone]

BuilderAssets == {0, 1}
BuilderPrices == {"45000.0", "108000"}
BuilderSizes == {"0.01"}
BuilderCloids == {49421}
LimitIoc == <<"limit", "Ioc">>
LimitGtc == <<"limit", "Gtc">>
TriggerOf(trigger_px, tpsl) == <<"trigger", trigger_px, TRUE, tpsl>>
BuilderOrderTypes == {LimitIoc, TriggerOf("44000", "sl")}

\* A method takes the builder by value: none can be called on one that build
\* has consumed.  The rest of the state is not the builder's.
BuilderFrame ==
    /\ encOut = NoOut
    /\ UNCHANGED <<encOut, clockVars, provider, limiter, taskVars, maxIssued, histVars,
                   batchVars, wsVars>>

BuilderBuy == encAct' = [encAct EXCEPT !.is_buy = RSome(TRUE)] /\ BuilderFrame

BuilderSell == encAct' = [encAct EXCEPT !.is_buy = RSome(FALSE)] /\ BuilderFrame

BuilderLimitPx(price) == encAct' = [encAct EXCEPT !.limit_px = RSome(price)] /\ BuilderFrame

BuilderSize(size) == encAct' = [encAct EXCEPT !.sz = RSome(size)] /\ BuilderFrame

BuilderReduceOnly(reduce) == encAct' = [encAct EXCEPT !.reduce_only = reduce] /\ BuilderFrame

BuilderOrderType(ot) == encAct' = [encAct EXCEPT !.order_type = RSome(ot)] /\ BuilderFrame

BuilderCloid(id) == encAct' = [encAct EXCEPT !.cloid = RSome(id)] /\ BuilderFrame

\* limit_buy / limit_sell: self.buy().limit_px(price).size(size)
BuilderLimitSide(is_buy, price, size) ==
    /\ encAct' = [encAct EXCEPT !.is_buy = RSome(is_buy), !.limit_px = RSome(price),
                                !.sz = RSome(size)]
    /\ BuilderFrame

\* trigger_buy / trigger_sell: self.buy().size(size).order_type(Trigger{..})
BuilderTriggerSide(is_buy, trigger_px, size, tpsl) ==
    /\ encAct' = [encAct EXCEPT !.is_buy = RSome(is_buy), !.sz = RSome(size),
                                !.order_type = RSome(TriggerOf(trigger_px, tpsl))]
    /\ BuilderFrame

build_SizeFirst(b) ==
    IF b.sz = RNone THEN <<"Err", "InvalidRequest", "sz must be specified">>
    ELSE IF b.limit_px = RNone
    THEN <<"Err", "InvalidRequest", "limit_px must be specified">>
    ELSE IF b.is_buy = RNone THEN <<"Err", "InvalidRequest", "is_buy must be specified">>
    ELSE <<"Ok", [asset |-> b.asset, isBuy |-> b.is_buy[2], limitPx |-> b.limit_px[2],
                  sz |-> b.sz[2], reduceOnly |-> b.reduce_only,
                  orderType |-> IF b.order_type = RNone THEN LimitGtc
                                ELSE b.order_type[2],
                  cloid |-> IF b.cloid = RNone THEN RNone
                            ELSE RSome(JoinChars(FormatHex(HexDigits(b.cloid[2]), 32)))]>>

\* OrderBuilder::build: the fields of the OrderRequest are evaluated in the
\* order written, each `?` returning its error at once.
build(b) ==
    IF b.is_buy = RNone THEN <<"Err", "InvalidRequest", "is_buy must be specified">>
    ELSE IF b.limit_px = RNone
    THEN <<"Err", "InvalidRequest", "limit_px must be specified">>
    ELSE IF b.sz = RNone THEN <<"Err", "InvalidRequest", "sz must be specified">>
    ELSE <<"Ok", [asset |-> b.asset, isBuy |-> b.is_buy[2], limitPx |-> b.limit_px[2],
                  sz |-> b.sz[2], reduceOnly |-> b.reduce_only,
                  orderType |-> IF b.order_type = RNone THEN LimitGtc
                                ELSE b.order_type[2],
                  cloid |-> IF b.cloid = RNone THEN RNone
                            ELSE RSome(JoinChars(FormatHex(HexDigits(b.cloid[2]), 32)))]>>

\* build consumes the builder.
BuilderBuild ==
    /\ encOut = NoOut
    /\ encOut' = [fn |-> "build", arg |-> <<>>, val |-> build(encAct)]
    /\ UNCHANGED <<encAct, clockVars, provider, limiter, taskVars, maxIssued, histVars,
                   batchVars, wsVars>>

(***************************************************************************)
(* WsProvider (providers/websocket.rs): the provider, the reader task      *)
(* start_reading spawns and the router task connect spawns                 *)
(***************************************************************************)
MaxSubscriptions == 2    \* successful subscribe calls in one run
MaxFrames == 2           \* text frames the reader forwards in one run
MaxPings == 1            \* pings written to the connection in one run

\* Subscription::L2Book{coin}, Subscription::AllMids
WsTopics == {"l2Book:BTC", "allMids"}

\* WsRequest::subscribe / unsubscribe / ping, as the frame written.
WsRequest(method, subscription) == [method |-> method, subscription |-> subscription]

WsOk(op, id) == [op |-> op, id |-> id, res |-> <<"Ok">>]
WsErr(op, id, msg) == [op |-> op, id |-> id, res |-> <<"WebSocket", msg>>]

NoRouting == [msg |-> <<>>, todo |-> {}]
WsIdle == [op |-> "none", id |-> 0, subscription |-> "none"]

\* WsProvider::connect, once the connection is established.
InitWs ==
    /\ ws = TRUE
    /\ subscriptions = <<>>
    /\ next_id = 1
    /\ wsPc = WsIdle
    /\ wsRet = [op |-> "connect", id |-> 0, res |-> <<"Ok">>]
    /\ wire = <<>>
    /\ reader = "none"
    /\ message_chan = <<>>
    /\ routing = NoRouting
    /\ rx = <<>>
    /\ readLog = <<>>
    /\ unsubDone = {}

\* The rest of the state is not the WebSocket provider's.
WsFrame ==
    UNCHANGED <<encVars, clockVars, provider, limiter, taskVars, maxIssued, histVars,
                batchVars>>

\* WsProvider::is_connected
is_connected == ws

\* DashMap::insert / DashMap::remove
Insert(m, k, v) == [i \in DOMAIN m \cup {k} |-> IF i = k THEN v ELSE m[i]]
Remove(m, k) == [i \in DOMAIN m \ {k} |-> m[i]]

Subscribe_IdFirst(subscription, ok) ==
    /\ wsPc = WsIdle
    /\ (ws /\ ok) => next_id <= MaxSubscriptions
    /\ IF ~ws
       THEN /\ wsRet' = WsErr("subscribe", 0, "Not connected")
            /\ UNCHANGED <<wire, subscriptions, rx, next_id>>
       ELSE IF ~ok
       THEN /\ wsRet' = WsErr("subscribe", 0, "Failed to send subscription")
            /\ next_id' = next_id + 1
            /\ UNCHANGED <<wire, subscriptions, rx>>
       ELSE /\ wire' = Append(wire, WsRequest("subscribe", subscription))
            /\ subscriptions' = Insert(subscriptions, next_id, subscription)
            /\ rx' = Insert(rx, next_id, <<>>)
            /\ next_id' = next_id + 1
            /\ wsRet' = WsOk("subscribe", next_id)
    /\ UNCHANGED <<ws, wsPc, reader, message_chan, routing, readLog, unsubDone>>
    /\ WsFrame

\* WsProvider::subscribe.  The connection is looked up first, then the frame
\* is written (`ok`: the write succeeded), and only then is the id taken and
\* the handle inserted.  No other task touches what subscribe reads while it
\* waits for the write, so the call is one step.
Subscribe(subscription, ok) ==
    /\ wsPc = WsIdle
    /\ (ws /\ ok) => next_id <= MaxSubscriptions
    /\ IF ~ws
       THEN /\ wsRet' = WsErr("subscribe", 0, "Not connected")
            /\ UNCHANGED <<wire, subscriptions, rx, next_id>>
       ELSE IF ~ok
       THEN /\ wsRet' = WsErr("subscribe", 0, "Failed to send subscription")
            /\ UNCHANGED <<wire, subscriptions, rx, next_id>>
       ELSE /\ wire' = Append(wire, WsRequest("subscribe", subscription))
            /\ subscriptions' = Insert(subscriptions, next_id, subscription)
            /\ rx' = Insert(rx, next_id, <<>>)
            /\ next_id' = next_id + 1
            /\ wsRet' = WsOk("subscribe", next_id)
    /\ UNCHANGED <<ws, wsPc, reader, message_chan, routing, readLog, unsubDone>>
    /\ WsFrame

UnsubscribeBegin_ConnFirst(id) ==
    /\ wsPc = WsIdle
    /\ IF id \in DOMAIN subscriptions
       THEN IF ~ws
            THEN /\ wsRet' = WsErr("unsubscribe", id, "Not connected")
                 /\ unsubDone' = unsubDone \cup {id}
                 /\ UNCHANGED <<wsPc, subscriptions>>
            ELSE /\ wsPc' = [op |-> "unsubscribe", id |-> id,
                             subscription |-> subscriptions[id]]
                 /\ subscriptions' = Remove(subscriptions, id)
                 /\ UNCHANGED <<wsRet, unsubDone>>
       ELSE /\ wsRet' = WsOk("unsubscribe", id)
            /\ unsubDone' = unsubDone \cup ({id} \cap DOMAIN rx)
            /\ UNCHANGED <<wsPc, subscriptions>>
    /\ UNCHANGED <<ws, next_id, wire, reader, message_chan, routing, rx, readLog>>
    /\ WsFrame

\* WsProvider::unsubscribe, up to the write of its frame: the handle is taken
\* out of the table, then the connection is looked up.
UnsubscribeBegin(id) ==
    /\ wsPc = WsIdle
    /\ IF id \in DOMAIN subscriptions
       THEN /\ subscriptions' = Remove(subscriptions, id)
            /\ IF ~ws
               THEN /\ wsRet' = WsErr("unsubscribe", id, "Not connected")
                    /\ unsubDone' = unsubDone \cup {id}
                    /\ UNCHANGED wsPc
               ELSE /\ wsPc' = [op |-> "unsubscribe", id |-> id,
                                subscription |-> subscriptions[id]]
                    /\ UNCHANGED <<wsRet, unsubDone>>
       ELSE /\ wsRet' = WsOk("unsubscribe", id)
            /\ unsubDone' = unsubDone \cup ({id} \cap DOMAIN rx)
            /\ UNCHANGED <<wsPc, subscriptions>>
    /\ UNCHANGED <<ws, next_id, wire, reader, message_chan, routing, rx, readLog>>
    /\ WsFrame

\* WsProvider::unsubscribe, from the write of its frame on.
UnsubscribeWrite(ok) ==
    /\ wsPc # WsIdle
    /\ IF ok
       THEN /\ wire' = Append(wire, WsRequest("unsubscribe", wsPc.subscription))
            /\ wsRet' = WsOk("unsubscribe", wsPc.id)
       ELSE /\ wsRet' = WsErr("unsubscribe", wsPc.id, "Failed to send unsubscribe")
            /\ UNCHANGED wire
    /\ unsubDone' = unsubDone \cup {wsPc.id}
    /\ wsPc' = WsIdle
    /\ UNCHANGED <<ws, subscriptions, next_id, reader, message_chan, routing, rx, readLog>>
    /\ WsFrame

\* WsProvider::ping
Ping(ok) ==
    /\ wsPc = WsIdle
    /\ (ws /\ ok) =>
          Cardinality({i \in 1..Len(wire) : wire[i].method = "ping"}) < MaxPings
    /\ IF ~ws
       THEN wsRet' = WsErr("ping", 0, "Not connected") /\ UNCHANGED wire
       ELSE IF ~ok
       THEN wsRet' = WsErr("ping", 0, "Failed to send ping") /\ UNCHANGED wire
       ELSE wsRet' = WsOk("ping", 0) /\ wire' = Append(wire, WsRequest("ping", "none"))
    /\ UNCHANGED <<ws, subscriptions, next_id, wsPc, reader, message_chan, routing, rx,
                   readLog, unsubDone>>
    /\ WsFrame

StartReading_KeepsWs ==
    /\ wsPc = WsIdle
    /\ IF reader # "none"
       THEN wsRet' = WsErr("start_reading", 0, "Not connected") /\ UNCHANGED <<ws, reader>>
       ELSE /\ reader' = "running"
            /\ wsRet' = WsOk("start_reading", 0)
            /\ UNCHANGED ws
    /\ UNCHANGED <<subscriptions, next_id, wsPc, wire, message_chan, routing, rx, readLog,
                   unsubDone>>
    /\ WsFrame

\* WsProvider::start_reading: the connection is taken out of the provider and
\* moved into the reader task.
StartReading ==
    /\ wsPc = WsIdle
    /\ IF ~ws
       THEN wsRet' = WsErr("start_reading", 0, "Not connected") /\ UNCHANGED <<ws, reader>>
       ELSE /\ ws' = FALSE
            /\ reader' = "running"
            /\ wsRet' = WsOk("start_reading", 0)
    /\ UNCHANGED <<subscriptions, next_id, wsPc, wire, message_chan, routing, rx, readLog,
                   unsubDone>>
    /\ WsFrame

\* What read_frame can give the reader: a text frame (of a message kind the
\* router can parse, or not; n is its place among the texts read), a text
\* frame that is not UTF-8, a frame of another kind, a close frame, an error.
InboundFrames(n) ==
    {[opcode |-> "Text", utf8 |-> TRUE, text |-> <<k, n>>] :
        k \in {"l2Book", "garbage"}}
    \cup {[opcode |-> "Text", utf8 |-> FALSE, text |-> <<>>],
          [opcode |-> "Binary", utf8 |-> FALSE, text |-> <<>>],
          [opcode |-> "Close", utf8 |-> FALSE, text |-> <<>>],
          [opcode |-> "Err", utf8 |-> FALSE, text |-> <<>>]}

\* One turn of the reader task's loop.
ReadFrame(frame) ==
    /\ reader = "running"
    /\ IF frame.opcode = "Text" /\ frame.utf8
       THEN /\ Len(readLog) < MaxFrames
            /\ message_chan' = Append(message_chan, frame.text)
            /\ readLog' = Append(readLog, frame.text)
            /\ UNCHANGED reader
       ELSE IF frame.opcode \in {"Close", "Err"}
       THEN reader' = "stopped" /\ UNCHANGED <<message_chan, readLog>>
       ELSE UNCHANGED <<reader, message_chan, readLog>>
    /\ UNCHANGED <<ws, subscriptions, next_id, wsPc, wsRet, wire, routing, rx, unsubDone>>
    /\ WsFrame

\* simd_json::from_slice::<Message>
ParsesAsMessage(text) == text[1] \in {"l2Book", "allMids"}
ParseMessage(text) == [channel |-> text[1], data |-> text[2]]

\* message_router: rx.recv() gives the next text; one that parses is handed
\* to the entries of the table, one that does not is ignored.
RouterRecv ==
    /\ routing = NoRouting
    /\ message_chan # <<>>
    /\ message_chan' = Tail(message_chan)
    /\ LET text == Head(message_chan)
       IN routing' = IF ParsesAsMessage(text) /\ DOMAIN subscriptions # {}
                     THEN [msg |-> ParseMessage(text), todo |-> DOMAIN subscriptions]
                     ELSE NoRouting
    /\ UNCHANGED <<ws, subscriptions, next_id, wsPc, wsRet, wire, reader, rx, readLog,
                   unsubDone>>
    /\ WsFrame

RouterSend_TopicOnly(id) ==
    /\ id \in routing.todo
    /\ rx' = IF id \in DOMAIN subscriptions
                /\ (subscriptions[id] = "l2Book:BTC") = (routing.msg.channel = "l2Book")
             THEN [rx EXCEPT ![id] = Append(@, routing.msg)]
             ELSE rx
    /\ routing' = IF routing.todo = {id} THEN NoRouting
                  ELSE [routing EXCEPT !.todo = @ \ {id}]
    /\ UNCHANGED <<ws, subscriptions, next_id, wsPc, wsRet, wire, reader, message_chan,
                   readLog, unsubDone>>
    /\ WsFrame

\* message_router, one turn of `for entry in subscriptions.iter()`: the
\* iterator reaches id.  An entry removed since the loop began is not
\* yielded; one still there has the message sent to its channel.
RouterSend(id) ==
    /\ id \in routing.todo
    /\ rx' = IF id \in DOMAIN subscriptions
             THEN [rx EXCEPT ![id] = Append(@, routing.msg)]
             ELSE rx
    /\ routing' = IF routing.todo = {id} THEN NoRouting
                  ELSE [routing EXCEPT !.todo = @ \ {id}]
    /\ UNCHANGED <<ws, subscriptions, next_id, wsPc, wsRet, wire, reader, message_chan,
                   readLog, unsubDone>>
    /\ WsFrame

(***************************************************************************)
(* Initial states and specifications                                       *)
(***************************************************************************)
\* ExchangeProvider::new, through the public constructors.
NewProvider(endpoint, vault, agent, builder) ==
    [endpoint |-> endpoint, vault_address |-> vault, agent |-> agent,
     builder |-> builder]

Endpoints == {EXCHANGE_ENDPOINT_MAINNET, EXCHANGE_ENDPOINT_TESTNET}

Configs ==
    {NewProvider(e, v, a, b) :
       e \in Endpoints, v \in {NoAddr, AddrA}, a \in {NoAddr, AddrB},
       b \in {NoAddr, AddrA}}

PlainConfigs == {NewProvider(e, NoAddr, NoAddr, NoAddr) : e \in Endpoints}

EncIdle ==
    /\ encAct = CHOOSE a \in InstancesOf("Agent") : TRUE
    /\ encOut = NoOut

\* Providers `ps` built from the configurations `cfgs`, callers `ts`.
InitWith(ps, cfgs, ts) ==
    /\ wall = 0
    /\ now = 0
    /\ provider \in [ps -> cfgs]
    /\ limiter = [p \in ps |-> NewRateLimiter(0)]
    /\ pc = [t \in ts |-> "idle"]
    /\ call = [t \in ts |-> NoCall]
    /\ result = [t \in ts |-> Pending]
    /\ sigReq = [t \in ts |-> <<>>]
    /\ posts = [t \in ts |-> <<>>]
    /\ maxIssued = [p \in ps |-> -1]
    /\ admitted = [p \in ps |-> [i \in 0..MaxNow |-> 0]]
    /\ lastCheck = NoCheck
    /\ window = <<>>
    /\ windowAge = 0
    /\ intents = <<>>
    /\ batches = <<>>
    /\ shutdown = FALSE
    /\ InitWs

Providers == DOMAIN provider
Tasks == DOMAIN pc

CallOf(t, ops) ==
    \E p \in Providers, op \in ops :
        \E complete \in (IF op = "order_builder_send" THEN BOOLEAN ELSE {TRUE}) :
            Call(t, p, op, complete)

SignerAnswers(t) == \E ok \in BOOLEAN : SignReturn(t, ok)
HttpAnswers(t, outcomes) == \E o \in outcomes : HttpReturn(t, o)

\* ---- Spec: one provider, one caller, every operation ----
Init == EncIdle /\ InitWith({"p1"}, Configs, {"t1"})

Next ==
    \/ \E t \in Tasks : CallOf(t, Ops)
    \/ \E t \in Tasks : SignerAnswers(t)
    \/ \E t \in Tasks : HttpAnswers(t, HttpOutcomes)
    \/ \E t \in Tasks : Return(t)
    \/ Tick

Spec == Init /\ [][Next]_vars

\* ---- SpecConc: one provider, two concurrent callers ----
ConcOps == {"place_order", "usd_transfer"}
ConcOutcomes ==
    {o \in HttpOutcomes : ~o.transport \/ (o.status = 200 /\ o.body = "ok-envelope")}

InitConc == EncIdle /\ InitWith({"p1"}, PlainConfigs, {"t1", "t2"})

NextConc ==
    \/ \E t \in Tasks : CallOf(t, ConcOps)
    \/ \E t \in Tasks : SignerAnswers(t)
    \/ \E t \in Tasks : HttpAnswers(t, ConcOutcomes)
    \/ \E t \in Tasks : Return(t)
    \/ Tick
    \/ ClockAdjust

SpecConc == InitConc /\ [][NextConc]_vars

\* ---- SpecTwo: two providers in one process, one caller using either ----
TwoOps == {"place_order", "bulk_orders", "usd_transfer"}

InitTwo == EncIdle /\ InitWith({"p1", "p2"}, PlainConfigs, {"t1"})

NextTwo ==
    \/ \E t \in Tasks : CallOf(t, TwoOps)
    \/ \E t \in Tasks : SignerAnswers(t)
    \/ \E t \in Tasks : HttpAnswers(t, ConcOutcomes)
    \/ \E t \in Tasks : Return(t)
    \/ Tick

SpecTwo == InitTwo /\ [][NextTwo]_vars

\* ---- SpecLimiter: the rate limiter of one provider, checked directly ----
InitLimiter == EncIdle /\ InitWith({"p1"}, PlainConfigs, {"t1"})

NextLimiter ==
    \/ \E p \in Providers, w \in Weights : Admit(p, w)
    \/ Tick

SpecLimiter == InitLimiter /\ [][NextLimiter]_vars

\* ---- SpecEnc: the encoder applied to one action instance ----
InitEnc ==
    /\ encAct \in EncInstances
    /\ encOut = NoOut
    /\ InitWith({"p1"}, {NewProvider(EXCHANGE_ENDPOINT_MAINNET, NoAddr, NoAddr, NoAddr)},
                {"t1"})

NextEnc ==
    \/ EncTypeHash
    \/ EncEncodeData
    \/ EncStructHash
    \/ EncDomain
    \/ EncSigningHash

SpecEnc == InitEnc /\ [][NextEnc]_vars

\* ---- SpecSig: one signature of the inner signer, converted and formatted ----
InitSig ==
    /\ encAct \in SigInstances
    /\ encOut = NoOut
    /\ InitWith({"p1"}, {NewProvider(EXCHANGE_ENDPOINT_MAINNET, NoAddr, NoAddr, NoAddr)},
                {"t1"})

NextSig ==
    \/ SigSignHash
    \/ SigPost

SpecSig == InitSig /\ [][NextSig]_vars

\* ---- SpecBatch: the order tracker and batcher ----
InitBatch ==
    /\ EncIdle
    /\ InitWith({"p1"}, {NewProvider(EXCHANGE_ENDPOINT_MAINNET, NoAddr, NoAddr, NoAddr)},
                {"t1"})

\* The dispatch of some batch in flight comes back, one way or the other.
BatchReturns ==
    \E b \in 1..Len(batches) :
        \/ \E f \in BatchFailures : BatchFails(b, f)
        \/ \E r \in BatchResponses(b, Len(batches[b].ids)) : BatchResponds(b, r)

NextBatch ==
    \/ \E order \in BatchOrders : order.asset = Len(intents) /\ Submit(order)
    \/ BatchTick
    \/ Shutdown
    \/ \E b \in 1..Len(batches) : \E f \in BatchFailures : BatchFails(b, f)
    \/ \E b \in 1..Len(batches) :
          \E r \in BatchResponses(b, Len(batches[b].ids)) : BatchResponds(b, r)
    \/ \E id \in 1..Len(intents) : Abandon(id)

SpecBatch == InitBatch /\ [][NextBatch]_vars

\* ---- SpecBatchLive: the same, with the flush timer running and every
\* dispatch coming back (the dispatcher's POST returns on every outcome) ----
NextBatchLive ==
    \/ \E order \in BatchOrders : order.asset = Len(intents) /\ Submit(order)
    \/ BatchTick
    \/ Shutdown
    \/ BatchReturns
    \/ \E id \in 1..Len(intents) : Abandon(id)

SpecBatchLive ==
    InitBatch /\ [][NextBatchLive]_vars /\ WF_vars(BatchTick) /\ WF_vars(BatchReturns)

\* ---- SpecBuilder: one OrderBuilder, from new to build ----
InitBuilder ==
    /\ encAct \in {OrderBuilder_new(a) : a \in BuilderAssets}
    /\ encOut = NoOut
    /\ InitWith({"p1"}, {NewProvider(EXCHANGE_ENDPOINT_MAINNET, NoAddr, NoAddr, NoAddr)},
                {"t1"})

NextBuilder ==
    \/ BuilderBuy
    \/ BuilderSell
    \/ \E price \in BuilderPrices : BuilderLimitPx(price)
    \/ \E size \in BuilderSizes : BuilderSize(size)
    \/ \E reduce \in BOOLEAN : BuilderReduceOnly(reduce)
    \/ \E ot \in BuilderOrderTypes : BuilderOrderType(ot)
    \/ \E id \in BuilderCloids : BuilderCloid(id)
    \/ \E is_buy \in BOOLEAN, price \in BuilderPrices, size \in BuilderSizes :
          BuilderLimitSide(is_buy, price, size)
    \/ \E is_buy \in BOOLEAN, size \in BuilderSizes :
          BuilderTriggerSide(is_buy, "44000", size, "sl")
    \/ BuilderBuild

SpecBuilder == InitBuilder /\ [][NextBuilder]_vars

\* ---- SpecWs: the calls on one WsProvider after connect, every outcome of
\* every write, with a connection on which nothing arrives ----
InitWsProvider ==
    /\ EncIdle
    /\ InitWith({"p1"}, {NewProvider(EXCHANGE_ENDPOINT_MAINNET, NoAddr, NoAddr, NoAddr)},
                {"t1"})

NextWs ==
    \/ \E subscription \in WsTopics, ok \in BOOLEAN : Subscribe(subscription, ok)
    \/ \E id \in 1..MaxSubscriptions : UnsubscribeBegin(id)
    \/ \E ok \in BOOLEAN : UnsubscribeWrite(ok)
    \/ \E ok \in BOOLEAN : Ping(ok)
    \/ StartReading

SpecWs == InitWsProvider /\ [][NextWs]_vars

\* ---- SpecWsRoute: the subscriptions of examples/04_websocket.rs (the BTC
\* book, then all mids), then the reader and the router at work while the
\* caller unsubscribes ----
NextWsRoute ==
    \/ \E subscription \in WsTopics :
          /\ subscription = (IF next_id = 1 THEN "l2Book:BTC" ELSE "allMids")
          /\ Subscribe(subscription, TRUE)
    \/ \E id \in 1..MaxSubscriptions : UnsubscribeBegin(id)
    \/ UnsubscribeWrite(TRUE)
    \/ StartReading
    \/ \E frame \in InboundFrames(Len(readLog) + 1) : ReadFrame(frame)
    \/ RouterRecv
    \/ \E id \in 1..MaxSubscriptions : RouterSend(id)

SpecWsRoute == InitWsProvider /\ [][NextWsRoute]_vars

(***************************************************************************)
(* Claims                                                                  *)
(***************************************************************************)
InFlight(t) == pc[t] # "idle" /\ call[t].nonce # -1

\* C1: no two nonces issued through one provider are equal, also when the
\* issuances fall in the same millisecond.
C1_NoncesDistinct ==
    \A t1, t2 \in Tasks :
        (t1 # t2 /\ InFlight(t1) /\ InFlight(t2) /\ call[t1].prov = call[t2].prov)
        => call[t1].nonce # call[t2].nonce

\* C2: a nonce issued for a provider is strictly greater than every nonce
\* issued for it before, whatever the wall clock did in between.
C2_NonceStrictlyIncreasing ==
    [][\A t \in DOMAIN pc :
          (pc[t] = "idle" /\ pc'[t] = "signing")
          => call'[t].nonce > maxIssued[call'[t].prov]]_vars

\* The struct encoding with the fields in the order the type-signature
\* string declares them.
DeclaredEncoding(a) ==
    LET json == to_value(a)
        ms == TypeMembers(a.variant)
    IN <<type_hash(a.variant)>> \o [i \in 1..Len(ms) |-> encode_field(json[ms[i][2]])]

Signed(t) == pc[t] # "idle" /\ sigReq[t] # <<>>

OtherEndpoint(e) ==
    IF e = EXCHANGE_ENDPOINT_MAINNET THEN EXCHANGE_ENDPOINT_TESTNET
    ELSE EXCHANGE_ENDPOINT_MAINNET

\* C5: every L1 action is signed as an Agent struct under the "Exchange"
\* domain with chain id 1337 on both networks; the digest of the same call on
\* the other network differs in the Agent source word and in nothing else.
C5_L1SignedAsAgentUnderExchange ==
    \A t \in Tasks :
        (Signed(t) /\ call[t].op \in L1Ops)
        => LET prov == provider[call[t].prov]
               twin == [prov EXCEPT !.endpoint = OtherEndpoint(prov.endpoint)]
               d == sigReq[t][1]
               d2 == SigningHashOf(call[t].op, twin, call[t].nonce)
               w == d[5][2]
               w2 == d2[5][2]
           IN /\ d[4] = <<"keccak_domain", "Exchange", "1", 1337, ZeroAddress>>
              /\ d2[4] = d[4]
              /\ w[1] = KeccakText("Agent(string source,bytes32 connectionId)")
              /\ Len(w) = 3 /\ Len(w2) = 3
              /\ \E i \in 1..3 :
                    /\ w[i] = KeccakText(infer_network(prov)[2])
                    /\ w2[i] = KeccakText(infer_network(twin)[2])
                    /\ w[i] # w2[i]
                    /\ \A j \in 1..3 : j # i => w[j] = w2[j]

C5_Witness ==
    \E t \in Tasks :
        /\ pc[t] = "signing"
        /\ call[t].op = "update_leverage"
        /\ provider[call[t].prov].endpoint = EXCHANGE_ENDPOINT_TESTNET

TransactionVariants ==
    {"UsdSend", "Withdraw", "SpotSend", "ApproveAgent", "ApproveBuilderFee"}

\* C6: type_hash is the hash of "HyperliquidTransaction:" + the type signature
\* for a transaction-domain variant and of the bare type signature for an
\* exchange-domain variant, whatever the instance; the two encodings of one
\* type signature hash differently.
C6_TypeHashOfVariant ==
    encOut.fn = "type_hash"
    => LET sig == TYPE_STRING(encAct.variant)
           prefixed == KeccakText("HyperliquidTransaction:" \o sig)
           bare == KeccakText(sig)
       IN /\ encOut.val = IF encAct.variant \in TransactionVariants THEN prefixed
                          ELSE bare
          /\ prefixed # bare
          /\ encAct.variant = "UsdSend"
             => encOut.val = KeccakText("HyperliquidTransaction:UsdSend(string hyperliquidChain,string destination,string amount,uint64 time)")
          /\ encAct.variant = "Agent"
             => encOut.val = KeccakText("Agent(string source,bytes32 connectionId)")

C6_Witness == encOut.fn = "type_hash" /\ encAct.variant = "ApproveAgent"

\* C7: every operation that posts a signed action has passed a rate-limit
\* admission check for its weight before the POST.
C7_EveryDispatchAdmitted ==
    \A t \in Tasks : posts[t] # <<>> => call[t].checked > 0

\* C8: a call that returns RateLimited or InvalidRequest has asked the signer
\* for nothing and has posted nothing.
C8_EarlyErrorsBeforeNetwork ==
    \A t \in Tasks :
        result[t][1] \in {"RateLimited", "InvalidRequest"}
        => sigReq[t] = <<>> /\ posts[t] = <<>>

C8_Witness ==
    \E t \in Tasks :
        /\ pc[t] = "done"
        /\ result[t][1] = "RateLimited"
        /\ call[t].op = "bulk_orders"

RECURSIVE SumOver(_, _, _)
SumOver(f, lo, hi) == IF lo > hi THEN 0 ELSE f[lo] + SumOver(f, lo + 1, hi)

\* C9: the bucket holds between 0 and capacity tokens, and the weight
\* admitted over any window of time is at most the capacity plus what the
\* window refilled.
C9_BucketBounded ==
    \A p \in Providers :
        /\ limiter[p].tokens >= 0
        /\ limiter[p].tokens <= RATE_LIMIT_MAX_TOKENS
        /\ \A s \in 0..now : \A e \in s..now :
              SumOver(admitted[p], s, e)
              <= RATE_LIMIT_MAX_TOKENS + (e - s) * RATE_LIMIT_REFILL_RATE

C9_Witness ==
    \E p \in Providers :
        /\ now >= 2
        /\ limiter[p].tokens = 0
        /\ admitted[p][0] > 0
        /\ admitted[p][now] > 0
        /\ lastCheck.res[1] = "RateLimited"

\* C10: a check for more than the tokens available after refill is refused at
\* once with the weight asked and the tokens available, and takes nothing
\* from the bucket; a check that passes takes exactly its weight.
C10_CheckOutcome ==
    lastCheck.prov # "none"
    => LET b == lastCheck.before
           avail == Min(RATE_LIMIT_MAX_TOKENS,
                        b.tokens + (lastCheck.at - b.last_refill) * RATE_LIMIT_REFILL_RATE)
       IN IF lastCheck.weight > avail
          THEN /\ lastCheck.res = <<"RateLimited", avail, lastCheck.weight>>
               /\ lastCheck.after.tokens = avail
               /\ lastCheck.after.tokens >= b.tokens
          ELSE /\ lastCheck.res = <<"Ok">>
               /\ lastCheck.after.tokens = avail - lastCheck.weight

C10_Witness ==
    /\ lastCheck.res[1] = "RateLimited"
    /\ lastCheck.weight = WEIGHT_BULK_ORDER
    /\ lastCheck.after.tokens > 0

\* The time a bucket takes to fill from empty: capacity / refill_rate.
FullRefillTime == RATE_LIMIT_MAX_TOKENS \div RATE_LIMIT_REFILL_RATE

\* No weight was admitted on provider p at the instants lo..hi.
QuietOver(p, lo, hi) == \A i \in lo..hi : admitted[p][i] = 0

\* C11: whatever the bucket held FullRefillTime ago, if nothing has been
\* admitted since, a check for the full capacity made now is admitted.
C11_FullRefillAdmitsCapacity ==
    [][\A p \in Providers :
          (/\ lastCheck' # lastCheck
           /\ lastCheck'.prov = p
           /\ lastCheck'.weight = RATE_LIMIT_MAX_TOKENS
           /\ now >= FullRefillTime
           /\ QuietOver(p, now - FullRefillTime + 1, now))
          => /\ lastCheck'.res = <<"Ok">>
             /\ admitted'[p][now] = RATE_LIMIT_MAX_TOKENS]_vars

C11_Witness ==
    /\ lastCheck.weight = RATE_LIMIT_MAX_TOKENS
    /\ lastCheck.res = <<"Ok">>
    /\ lastCheck.at = FullRefillTime
    /\ admitted[lastCheck.prov][0] = RATE_LIMIT_MAX_TOKENS
    /\ QuietOver(lastCheck.prov, 1, FullRefillTime - 1)
    /\ now = lastCheck.at

Posted(t) == pc[t] # "idle" /\ posts[t] # <<>>

\* C12: with an acting agent configured, the action posted is the agent
\* wrapper (agent address, the tagged action, the network source), and the
\* digest signed is the one the same call signs with no agent configured.
C12_AgentWrapsSignsUnwrapped ==
    \A t \in Tasks :
        (Posted(t) /\ provider[call[t].prov].agent # NoAddr)
        => LET prov == provider[call[t].prov]
               plain == [prov EXCEPT !.agent = NoAddr]
               sent == posts[t][1].action
               bare == PayloadOf(call[t], plain, <<"signature", sigReq[t][1]>>).action
           IN /\ sigReq[t][1] = SigningHashOf(call[t].op, plain, call[t].nonce)
              /\ sent.type = "agent"
              /\ DOMAIN sent = {"type", "agentAddress", "agentAction", "source"}
              /\ sent.agentAddress = HexAddress(prov.agent)
              /\ sent.agentAction = bare
              /\ sent.source = infer_network(prov)[2]

\* A struct name in lower camel case.
LowerCamel(v) ==
    CASE v = "UsdSend" -> "usdSend"
      [] v = "Withdraw" -> "withdraw"
      [] v = "SpotSend" -> "spotSend"
      [] v = "ApproveAgent" -> "approveAgent"
      [] v = "ApproveBuilderFee" -> "approveBuilderFee"

\* The tagged action inside a posted action object: the object itself, or
\* what the agent wrapper wraps.
TaggedAction(sent) ==
    IF "agentAction" \in DOMAIN sent THEN sent.agentAction ELSE sent

\* C13: the tagged action of every post has a `type` field holding the
\* action's variant name in lower camel case, L1 and user actions alike.
C13_TypeTagIsVariantName ==
    \A t \in Tasks :
        Posted(t)
        => LET tagged == TaggedAction(posts[t][1].action)
           IN /\ "type" \in DOMAIN tagged
              /\ tagged.type = IF IsL1(call[t].op) THEN ActionType(call[t].op)
                                ELSE LowerCamel(UserVariant(call[t].op))

\* C14: the signature string of the payload is exactly 130 lowercase hex
\* characters (64 for r, 64 for s, two for v), whatever the signer returned.
C14_SignatureHexIs130 ==
    encOut.fn = "sig_hex"
    => /\ Len(encOut.val) = 130
       /\ \A i \in 1..Len(encOut.val) : \E d \in 1..16 : encOut.val[i] = HexChars[d]

Answered(t) == pc[t] = "done" /\ posts[t] # <<>>

\* C15: one call sends at most one POST, whatever comes back, and the POST
\* carries the nonce the call issued.
C15_AtMostOnePost ==
    \A t \in Tasks :
        /\ Len(posts[t]) <= 1
        /\ Posted(t)
           => posts[t][1].nonce = call[t].nonce

C15_Witness ==
    \E t \in Tasks :
        /\ Answered(t)
        /\ result[t][1] = "Network"
        /\ Len(posts[t]) = 1

C17_SuccessClassifiedByDecoding ==
    \A t \in Tasks :
        (Answered(t) /\ call[t].resp.transport
         /\ call[t].resp.status >= 200 /\ call[t].resp.status <= 299)
        => IF call[t].resp.body \in {"ok-envelope", "err-envelope"}
           THEN result[t] = <<"Ok", call[t].resp.body>>
           ELSE result[t][1] = "InvalidResponse"

C17_Witness ==
    \E t \in Tasks :
        /\ Answered(t)
        /\ call[t].resp = [transport |-> TRUE, status |-> 299, body |-> "err-envelope"]
        /\ result[t] = <<"Ok", "err-envelope">>

OtherVault(v) == IF v = NoAddr THEN AddrA ELSE NoAddr

\* C18: the digest signed binds the vault address the payload carries: the
\* same call through a provider that differs in its vault address alone is
\* signed over a different digest.
C18_DigestBindsVault ==
    \A t \in Tasks :
        Posted(t)
        => LET prov == provider[call[t].prov]
               twin == [prov EXCEPT !.vault_address = OtherVault(prov.vault_address)]
               sig == <<"signature", sigReq[t][1]>>
           IN /\ PayloadOf(call[t], twin, sig).vaultAddress # posts[t][1].vaultAddress
              /\ SigningHashOf(call[t].op, twin, call[t].nonce) # sigReq[t][1]

\* The batch a step dispatches, if it dispatches one.
Dispatches == Len(batches') > Len(batches)
Dispatched == batches'[Len(batches')]

\* C19: an open window is dispatched when, and only when, it reaches the
\* maximum size, reaches the maximum wait, or the process shuts down; it never
\* holds more intents than the maximum.
C19_FlushWhenAndOnlyWhenDue ==
    [][/\ Len(window') <= MAX_BATCH_SIZE
       /\ window' # <<>>
          => /\ Len(window') < MAX_BATCH_SIZE
             /\ windowAge' < MAX_BATCH_WAIT
             /\ ~shutdown'
       /\ Dispatches
          => /\ Len(batches') = Len(batches) + 1
             /\ Dispatched.ids # <<>>
             /\ Len(Dispatched.ids) <= MAX_BATCH_SIZE
             /\ \/ Len(Dispatched.ids) = MAX_BATCH_SIZE
                \/ windowAge + 1 = MAX_BATCH_WAIT /\ Dispatched.ids = window
                \/ ~shutdown /\ shutdown' /\ Dispatched.ids = window]_vars

C19_Witness ==
    \E b \in 1..Len(batches) :
        /\ batches[b].why = "wait"
        /\ Len(batches[b].ids) = 2
        /\ window # <<>>
        /\ windowAge = 1

RECURSIVE IdsInOrder(_)
IdsInOrder(bs) == IF bs = <<>> THEN <<>> ELSE IdsInOrder(SubSeq(bs, 1, Len(bs) - 1)) \o bs[Len(bs)].ids

\* C20: the i-th intent of an answered batch has the i-th status of the
\* response; the batches, one after the other and then the open window, hold
\* the intents in the order they were submitted, and a batch carries its
\* intents' orders in that order.
C20_ResponseBoundByPosition ==
    /\ IdsInOrder(batches) \o window = [i \in 1..Len(intents) |-> i]
    /\ \A b \in 1..Len(batches) :
          LET bt == batches[b]
          IN /\ bt.orders = [i \in 1..Len(bt.ids) |-> intents[bt.ids[i]].order]
             /\ bt.state = "answered"
                => /\ Len(bt.response) = Len(bt.ids)
                   /\ \A i \in 1..Len(bt.ids) :
                         /\ intents[bt.ids[i]].outcome = bt.response[i]
                         /\ intents[bt.ids[i]].outcome \in StatusesAt(b, i)

C20_Witness ==
    \E b \in 1..Len(batches) :
        /\ batches[b].state = "answered"
        /\ batches[b].ids = <<1, 2, 3>>
        /\ intents[1].outcome[1] = "resting"
        /\ intents[2].outcome[1] = "error"
        /\ intents[1].order # intents[2].order

\* The batches that hold intent id, and whether the open window does.
BatchesOf(id) ==
    {b \in 1..Len(batches) : \E i \in 1..Len(batches[b].ids) : batches[b].ids[i] = id}
InWindow(id) == \E i \in 1..Len(window) : window[i] = id

\* C21: when the dispatch of a batch fails as a whole (transport or signing
\* error), every intent of the batch is resolved, once, with that failure;
\* none of them is in the open window and none is in any other batch.
C21_BatchFailureResolvesAll ==
    \A b \in 1..Len(batches) :
        batches[b].state = "failed"
        => /\ batches[b].response \in BatchFailures
           /\ \A i \in 1..Len(batches[b].ids) :
                 LET id == batches[b].ids[i]
                 IN /\ intents[id].outcome = <<"failure", batches[b].response>>
                    /\ intents[id].resolutions = 1
                    /\ ~InWindow(id)
                    /\ BatchesOf(id) = {b}

C21_Witness ==
    /\ Len(batches) = 2
    /\ batches[1].state = "failed"
    /\ batches[1].response[1] = "Network"
    /\ Len(batches[1].ids) = 2
    /\ batches[2].state = "answered"
    /\ intents[1].outcome = intents[2].outcome
    /\ intents[1].outcome[1] = "failure"

Resolved(id) ==
    /\ id <= Len(intents)
    /\ intents[id].resolutions = 1
    /\ intents[id].outcome[1] \in {"resting", "error", "failure"}
    /\ Cardinality(BatchesOf(id)) = 1

Abandoned(id) == intents[id].handle # "held"

\* C23: a caller abandoning its wait changes nothing but its own handle: the
\* window and the batches are as they were, so the intent is dispatched at its
\* position; every intent, abandoned or not, is in the window or in one batch
\* in submission order, and gets the outcome at its position.
C23_AbandonKeepsIntent ==
    /\ [][\A id \in 1..Len(intents) :
             (~Abandoned(id) /\ Abandoned(id)')
             => /\ window' = window
                /\ batches' = batches
                /\ intents' = [intents EXCEPT ![id].handle = intents'[id].handle]]_vars
    /\ [](/\ IdsInOrder(batches) \o window = [i \in 1..Len(intents) |-> i]
          /\ \A b \in 1..Len(batches) :
                \A i \in 1..Len(batches[b].ids) :
                    LET it == intents[batches[b].ids[i]]
                    IN /\ it.batch = b /\ it.pos = i
                       /\ batches[b].orders[i] = it.order
                       /\ batches[b].state = "answered"
                          => it.outcome = batches[b].response[i]
                       /\ batches[b].state = "failed"
                          => it.outcome = <<"failure", batches[b].response>>)

C23_Witness ==
    /\ Len(batches) >= 1
    /\ batches[1].state = "answered"
    /\ batches[1].ids = <<1, 2, 3>>
    /\ intents[2].handle = "dropped"
    /\ intents[1].handle = "held"
    /\ intents[3].handle = "held"
    /\ intents[1].outcome = batches[1].response[1]
    /\ intents[2].outcome = batches[1].response[2]
    /\ intents[3].outcome = batches[1].response[3]

\* C24: a call on one provider (its admission check, its nonce) leaves every
\* other provider's limiter and issued nonces as they were, and leaves the
\* clock the next nonce is read from alone.
C24_ProvidersIndependent ==
    [][\A t \in Tasks :
          (pc[t] = "idle" /\ pc'[t] # "idle")
          => /\ wall' = wall
             /\ \A q \in Providers :
                   q # call'[t].prov
                   => /\ limiter'[q] = limiter[q]
                      /\ maxIssued'[q] = maxIssued[q]]_vars

C24_Witness ==
    /\ limiter["p1"].tokens = 0
    /\ maxIssued["p1"] >= 0
    /\ limiter["p2"] = NewRateLimiter(0)
    /\ maxIssued["p2"] = -1
    /\ now > 0

FeeOps == {"place_order_with_builder_fee", "bulk_orders_with_builder_fee"}

\* C25: on a provider built with a builder address, every order-placement
\* action posted (wrapped for an agent or not) carries builder info with that
\* address, and with the fee given, 0 when the operation takes none.
C25_OrdersCarryBuilder ==
    \A t \in Tasks :
        (Posted(t) /\ call[t].op \in OrderOps
         /\ provider[call[t].prov].builder # NoAddr)
        => LET tagged == TaggedAction(posts[t][1].action)
           IN /\ tagged.type = "order"
              /\ "builder" \in DOMAIN tagged
              /\ tagged.builder.builder = HexAddress(provider[call[t].prov].builder)
              /\ tagged.builder.fee = IF call[t].op \in FeeOps THEN SampleFee ELSE 0

C25_Witness ==
    \E t \in Tasks :
        /\ Posted(t)
        /\ call[t].op = "bulk_orders_with_cloids"
        /\ provider[call[t].prov].builder = AddrA
        /\ provider[call[t].prov].agent = AddrB
        /\ posts[t][1].action.agentAction.builder = [builder |-> HexAddress(AddrA), fee |-> 0]

ReferenceVariants == {"UsdSend", "Withdraw"}

OtherChainId(c) == IF c = CHAIN_ID_MAINNET THEN CHAIN_ID_TESTNET ELSE CHAIN_ID_MAINNET

\* The same action with the other signature_chain_id.
ChainTwin(a) ==
    [a EXCEPT !.f.signatureChainId = RU64(OtherChainId(a.f.signatureChainId[2]))]

\* C27: signature_chain_id is no part of the struct hash: the action that
\* differs in it alone has the same struct hash, the encoding has one word for
\* the type and one for every other field, and none of them is the chain id,
\* wherever the field falls among the others.
C27_ChainIdLeftOut ==
    (encOut.fn = "struct_hash" /\ encAct.variant \in UserVariants)
    => LET words == encode_data(encAct)
       IN /\ encOut.val = struct_hash(ChainTwin(encAct))
          /\ ChainTwin(encAct) # encAct
          /\ Len(words) = Len(StructFields(encAct.variant))
          /\ \A i \in 1..Len(words) : words[i] # U256(encAct.f.signatureChainId[2])

C27_Witness ==
    /\ encOut.fn = "struct_hash"
    /\ encAct.variant = "ApproveAgent"
    /\ encAct.f.signatureChainId = RU64(CHAIN_ID_TESTNET)
    /\ encOut.val = struct_hash(ChainTwin(encAct))

RECURSIVE EncodedLen(_)
EncodedLen(words) ==
    IF words = <<>> THEN 0 ELSE WordLen(Head(words)) + EncodedLen(Tail(words))

RECURSIVE FromBE(_)
FromBE(bs) == IF bs = <<>> THEN 0 ELSE 256 * FromBE(SubSeq(bs, 1, Len(bs) - 1)) + bs[Len(bs)]

\* The word encode_data holds for the field `name` of instance a.
WordOf(a, words, name) ==
    LET names == MapIter(MapRemove(to_value(a), "signatureChainId"))
    IN words[1 + CHOOSE i \in 1..Len(names) : names[i] = name]

\* C28: the struct encoding has the type hash and one 32-byte word for every
\* signed field, 32 * (1 + fields) bytes in all: an unsigned integer's word is
\* its 32-byte big-endian form, a string's its hash, an absent optional
\* value's 32 zero bytes.
C28_EncodeFieldWords ==
    encOut.fn = "encode_data"
    => LET ms == TypeMembers(encAct.variant)
       IN /\ Len(encOut.val) = 1 + Len(ms)
          /\ EncodedLen(encOut.val) = 32 * (1 + Len(ms))
          /\ \A i \in 1..Len(ms) :
                LET x == encAct.f[ms[i][2]]
                    w == WordOf(encAct, encOut.val, ms[i][2])
                IN /\ x[1] = "u64"
                      => /\ w[1] = "u256"
                         /\ Len(to_be_bytes32(w[2])) = 32
                         /\ FromBE(to_be_bytes32(w[2])) = x[2]
                   /\ x[1] \in {"string", "some"} => w = KeccakText(x[2])
                   /\ x = RNone => w[1] = "u256" /\ to_be_bytes32(w[2]) = Rep(0, 32)

C28_Witness ==
    /\ encOut.fn = "encode_data"
    /\ encAct.variant = "ApproveAgent"
    /\ encAct.f.agentName = RNone
    /\ encAct.f.nonce = RU64(1690393044)
    /\ Len(encOut.val) = 5
    /\ WordOf(encAct, encOut.val, "agentName") = ZeroWord
    /\ to_be_bytes32(WordOf(encAct, encOut.val, "nonce")[2])
       = Rep(0, 28) \o <<100, 193, 89, 212>>

AddressField(op) ==
    CASE op \in {"usd_transfer", "withdraw", "spot_transfer"} -> "destination"
      [] op = "approve_agent" -> "agentAddress"
      [] op = "approve_builder_fee" -> "builder"

\* C30: the address field of a user action is posted as a string, the string
\* is the one whose hash is a word of the struct encoding signed, and it is
\* "0x" followed by the address's 40 lowercase hex digits.
C30_AddressHashedAsSent ==
    \A t \in Tasks :
        (Posted(t) /\ call[t].op \in UserOps)
        => LET sent == posts[t][1].action[AddressField(call[t].op)]
               words == sigReq[t][1][5][2]
           IN /\ sent[1] = "str"
              /\ \E i \in 2..Len(words) : words[i] = KeccakText(sent[2])
              /\ sent[2] = "0x0d1d9635d0640821d15e323ac8adadfa9c111414"
              /\ sent[2] = "0x" \o AddrA

C30_Witness ==
    \E t \in Tasks :
        /\ Posted(t)
        /\ call[t].op = "approve_agent"
        /\ posts[t][1].action.agentAddress
           = Str("0x0d1d9635d0640821d15e323ac8adadfa9c111414")
        /\ \E i \in 2..5 :
              sigReq[t][1][5][2][i]
              = KeccakText("0x0d1d9635d0640821d15e323ac8adadfa9c111414")

\* C31: the nonce of a dispatched payload is the nonce its signed digest
\* binds: the digest is the one computed from the operation with the
\* payload's nonce (the timestamp handed to hash_action, or the user action's
\* own time/nonce field), not the one of a later reading of the clock.
C31_PayloadNonceIsSignedNonce ==
    \A t \in DOMAIN posts : \A i \in 1..Len(posts[t]) :
        LET sent == posts[t][i]
            digest == sent.signature[2][2]
            prov == provider[call[t].prov]
        IN /\ digest = SigningHashOf(call[t].op, prov, sent.nonce)
           /\ wall # sent.nonce => digest # SigningHashOf(call[t].op, prov, wall)

C31_Witness ==
    \E t \in DOMAIN posts :
        /\ pc[t] = "posting"
        /\ call[t].op = "withdraw"
        /\ posts[t][1].nonce = 1
        /\ posts[t][1].action["time"] = Num(1)
        /\ wall = 2

\* C32: a dispatch hashes, then signs, then posts.  A request is on the wire
\* only once the signer has been asked to sign that call's digest and has
\* answered with a signature over it; while the signer is being waited for
\* nothing is posted; a signer failure ends the call with the signing failure
\* and without a request.
C32_HashSignPost ==
    /\ [](\A t \in DOMAIN pc :
             /\ pc[t] = "signing" => sigReq[t] # <<>> /\ posts[t] = <<>>
             /\ posts[t] # <<>> =>
                   /\ pc[t] \in {"posting", "done"}
                   /\ sigReq[t] # <<>>
                   /\ posts[t][1].signature = <<"hex", <<"signature", sigReq[t][1]>>>>
             /\ result[t] = <<"Signer", "SigningFailed">> => posts[t] = <<>>)
    /\ [][\A t \in DOMAIN pc :
             /\ (posts'[t] # posts[t] /\ posts'[t] # <<>>)
                   => pc[t] = "signing" /\ pc'[t] = "posting"
             /\ (pc[t] = "signing" /\ pc'[t] = "done")
                   => /\ result'[t] = <<"Signer", "SigningFailed">>
                      /\ posts'[t] = <<>>]_vars

C32_Witness ==
    \E t \in DOMAIN pc :
        /\ pc[t] = "done"
        /\ call[t].op = "usd_transfer"
        /\ sigReq[t] # <<>>
        /\ result[t] = <<"Signer", "SigningFailed">>
        /\ posts[t] = <<>>

\* The fields build requires, in the order it asks for them.
RequiredFields == <<"is_buy", "limit_px", "sz">>

Missing(b) == {i \in 1..Len(RequiredFields) : b[RequiredFields[i]] = RNone}

\* C33: build succeeds exactly when side, limit price and size are all set;
\* otherwise it returns InvalidRequest naming the first of them that is
\* missing; an order type left unset becomes a GTC limit order, one that was
\* set is kept.
C33_BuildNeedsSidePriceSize ==
    encOut.fn = "build" =>
        LET b == encAct
            out == encOut.val
        IN /\ (out[1] = "Ok") <=> (Missing(b) = {})
           /\ Missing(b) # {} =>
                LET first == CHOOSE i \in Missing(b) : \A j \in Missing(b) : i <= j
                IN out = <<"Err", "InvalidRequest",
                           RequiredFields[first] \o " must be specified">>
           /\ Missing(b) = {} =>
                /\ out[2].isBuy = b.is_buy[2]
                /\ out[2].limitPx = b.limit_px[2]
                /\ out[2].sz = b.sz[2]
                /\ out[2].orderType = IF b.order_type = RNone THEN <<"limit", "Gtc">>
                                      ELSE b.order_type[2]

\* A trigger order built with trigger_buy alone: no limit price was set.
C33_Witness ==
    /\ encOut.fn = "build"
    /\ encAct.is_buy = RSome(TRUE)
    /\ encAct.sz # RNone
    /\ encAct.order_type # RNone
    /\ encAct.order_type[2][1] = "trigger"
    /\ encAct.limit_px = RNone
    /\ encOut.val = <<"Err", "InvalidRequest", "limit_px must be specified">>

\* The texts the router has taken from its channel, and the messages among
\* them, in the order the reader read them.
Taken == SubSeq(readLog, 1, Len(readLog) - Len(message_chan))

RECURSIVE MessagesOf(_)
MessagesOf(texts) ==
    IF texts = <<>> THEN <<>>
    ELSE IF ParsesAsMessage(Head(texts))
    THEN <<ParseMessage(Head(texts))>> \o MessagesOf(Tail(texts))
    ELSE MessagesOf(Tail(texts))

IsPrefix(a, b) == Len(a) <= Len(b) /\ a = SubSeq(b, 1, Len(a))

\* C34: the router hands every text frame that parses as a Message to every
\* subscription in the table, whatever its topic, and in the order the frames
\* were read: what a receiver has been sent is a prefix of the messages the
\* router has taken, and all of them (but the one still on its way to it) for
\* a subscription still in the table.
C34_RouterBroadcastsInOrder ==
    /\ message_chan = SubSeq(readLog, Len(readLog) - Len(message_chan) + 1, Len(readLog))
    /\ \A id \in DOMAIN rx : IsPrefix(rx[id], MessagesOf(Taken))
    /\ \A id \in DOMAIN subscriptions :
          Len(rx[id]) = Len(MessagesOf(Taken)) - (IF id \in routing.todo THEN 1 ELSE 0)

C34_Witness ==
    /\ DOMAIN subscriptions = {1, 2}
    /\ subscriptions[2] = "allMids"
    /\ readLog = <<<<"l2Book", 1>>, <<"l2Book", 2>>>>
    /\ message_chan = <<>>
    /\ routing = NoRouting
    /\ rx[2] = <<[channel |-> "l2Book", data |-> 1], [channel |-> "l2Book", data |-> 2]>>
    /\ rx[1] = rx[2]

\* C35: unsubscribe takes the id out of the table before it tries to write
\* its frame; once it has returned, with Ok or with an error, the id is not
\* in the table and its receiver is sent nothing more; for an id that is not
\* in the table it returns Ok and writes no frame.
C35_UnsubscribeRemovesFirst ==
    /\ [](/\ wsPc # WsIdle => wsPc.id \notin DOMAIN subscriptions
          /\ \A id \in unsubDone : id \notin DOMAIN subscriptions)
    /\ [][/\ \A id \in DOMAIN rx : id \in unsubDone => rx'[id] = rx[id]
          /\ (/\ wsPc = WsIdle
              /\ wsRet'.op = "unsubscribe"
              /\ wsRet' # wsRet \/ unsubDone' # unsubDone
              /\ wsRet'.id \notin DOMAIN subscriptions)
                => wsRet'.res = <<"Ok">> /\ wire' = wire]_vars

C35_Witness ==
    /\ reader = "running"
    /\ wsRet = WsErr("unsubscribe", 1, "Not connected")
    /\ unsubDone = {1}
    /\ DOMAIN subscriptions = {2}
    /\ rx[1] = <<[channel |-> "l2Book", data |-> 1]>>
    /\ rx[2] = <<[channel |-> "l2Book", data |-> 1], [channel |-> "l2Book", data |-> 2]>>

\* C36: once start_reading has succeeded the provider does not hold the
\* connection: is_connected is false, and every subscribe, ping and
\* start_reading from then on returns "Not connected", writes no frame, adds
\* no subscription and takes no id.
C36_NotConnectedAfterStartReading ==
    /\ [](reader # "none" => ~is_connected)
    /\ [][reader # "none" =>
            /\ wire' = wire
            /\ next_id' = next_id
            /\ DOMAIN subscriptions' \subseteq DOMAIN subscriptions
            /\ (wsRet' # wsRet /\ wsRet'.op \in {"subscribe", "ping", "start_reading"})
                  => wsRet'.res = <<"WebSocket", "Not connected">>]_vars

C36_Witness ==
    /\ reader = "running"
    /\ ~is_connected
    /\ wsRet = WsErr("subscribe", 0, "Not connected")
    /\ DOMAIN subscriptions = {1, 2}
    /\ next_id = 3
    /\ Len(wire) = 3

\* C37: the ids subscribe returns are 1, 2, 3, ... in the order of the
\* successful calls, each returned once; an id taken out by unsubscribe does
\* not come back; a subscribe whose frame could not be written takes no id
\* and adds no entry.
C37_SubscriptionIdsFresh ==
    /\ [](/\ DOMAIN rx = 1..(next_id - 1)
          /\ DOMAIN subscriptions \subseteq DOMAIN rx)
    /\ [][/\ next_id' \in {next_id, next_id + 1}
          /\ DOMAIN subscriptions' \ DOMAIN subscriptions \subseteq {next_id}
          /\ (wsRet' # wsRet /\ wsRet'.op = "subscribe") =>
                IF wsRet'.res = <<"Ok">>
                THEN /\ wsRet'.id = next_id
                     /\ next_id' = next_id + 1
                     /\ wsRet'.id \notin DOMAIN rx
                     /\ DOMAIN subscriptions' = DOMAIN subscriptions \cup {wsRet'.id}
                ELSE /\ next_id' = next_id
                     /\ subscriptions' = subscriptions
                     /\ rx' = rx
                     /\ wire' = wire
          /\ next_id' # next_id => wsRet' = WsOk("subscribe", next_id)]_vars

C37_Witness ==
    /\ wsRet = WsErr("subscribe", 0, "Failed to send subscription")
    /\ next_id = 3
    /\ 1 \in unsubDone
    /\ DOMAIN subscriptions = {2}

\* The fees a caller may hand to the *_with_builder_fee operations.
FeesGiven == {0, 1, SampleFee, 100}

\* C38: on a provider built without a builder address the order action of
\* place_order_with_builder_fee and bulk_orders_with_builder_fee has no
\* builder field, and the action posted and the digest signed are the ones
\* any other fee would have given.
C38_FeeIgnoredWithoutBuilder ==
    \A t \in Tasks :
        (Posted(t) /\ call[t].op \in FeeOps /\ provider[call[t].prov].builder = NoAddr)
        => LET prov == provider[call[t].prov]
               tagged == TaggedAction(posts[t][1].action)
               digest == posts[t][1].signature[2][2]
           IN /\ tagged.type = "order"
              /\ DOMAIN tagged = {"type", "orders", "grouping"}
              /\ \A fee \in FeesGiven :
                    LET action == BulkOrder(tagged.orders, prov, fee)
                        agent == AgentOf(prov, hash_action("order", action, call[t].nonce,
                                                           prov.vault_address))
                    IN /\ tagged = InsertType(action, "order")
                       /\ digest = eip712_signing_hash(agent, domain(agent))

C38_Witness ==
    \E t \in Tasks :
        /\ Posted(t)
        /\ call[t].op = "bulk_orders_with_builder_fee"
        /\ provider[call[t].prov].builder = NoAddr
        /\ provider[call[t].prov].vault_address = AddrA
        /\ Len(TaggedAction(posts[t][1].action).orders) = 2
        /\ DOMAIN TaggedAction(posts[t][1].action) = {"type", "orders", "grouping"}

====
